---------------------------- MODULE Spec2Model ----------------------------
(***************************************************************************)
(* A model of the ckeditor5-widget package.                                *)
(*                                                                         *)
(*   - WidgetToolbarRepository (widgettoolbarrepository.js): the registry  *)
(*     of widget toolbars and the pass that shows the deepest one in the   *)
(*     ContextualBalloon.  Specification SpecToolbar.                      *)
(*   - Widget (widget.js): the mouse, keyboard and delete handlers that    *)
(*     drive the model selection around object elements.                   *)
(*     Specification Spec.                                                 *)
(*   - Widget's selection converter (widget.js): the pass that marks the   *)
(*     selected widgets in the view.  Specification SpecConversion.        *)
(*   - Highlight handling (utils.js): the descriptors of one element and   *)
(*     the callbacks made for them.  Specification SpecHighlight.          *)
(*   - toWidgetEditable (utils.js): the contenteditable attribute of the   *)
(*     nested editables.  Specification SpecEditable.                      *)
(*   - findOptimalInsertionPosition (utils.js): the position a new object  *)
(*     is inserted at.  Specification SpecInsertion.                       *)
(***************************************************************************)
EXTENDS Naturals, Integers, Sequences, FiniteSets, TLC

VARIABLES
    \* ---- WidgetToolbarRepository ----
    toolbarDefinitions, \* this._toolbarDefinitions: a Map, kept in insertion order
    stack,              \* the ContextualBalloon's stack of views, bottom first
    isFocused,          \* editor.ui.focusTracker.isFocused
    viewsCreated,       \* number of ToolbarView objects constructed so far
    op,                 \* the last operation on the repository, with its inputs
                        \* and the state it started from
    \* ---- Widget ----
    doc,                \* the model document: the root's content as a token sequence
    sel,                \* editor.model.document.selection: one range, anchor and focus
    created,            \* number of elements created by writer.createElement()
    isReadOnly,         \* editor.isReadOnly
    ev,                 \* the event being dispatched, once the plugin's listener
                        \* has run: its inputs, its outcome and the state it
                        \* started from (NoEvent between two events)
    previouslySelected, \* this._previouslySelected: a Set of view elements
    selectedClass,      \* the view elements that carry WIDGET_SELECTED_CLASS_NAME
    viewSelection,      \* view.document.selection: its ranges, isFake and the
                        \* label of the fake selection
    \* ---- utils: highlight handling of one view element ----
    highlightStack,     \* the descriptors present on the element, the winner first
    activeVisual,       \* the descriptor whose visual is applied: the last one
                        \* given to the add-callback and not to the remove-callback
    hop,                \* the last call of the element's add or remove accessor:
                        \* its input, the callbacks it made, the state before it
    \* ---- utils: toWidgetEditable and findOptimalInsertionPosition ----
    isEdge,             \* env.isEdge
    editables,          \* the view editable elements: isReadOnly, whether
                        \* toWidgetEditable() was called on the element, and its
                        \* contenteditable attribute
    uop,                \* the last thing done to an editable element
    insertion           \* the last call of findOptimalInsertionPosition(): the
                        \* selection it was given and the position it returned

toolbarVars == <<toolbarDefinitions, stack, isFocused, viewsCreated, op>>

widgetVars == <<doc, sel, created, isReadOnly, ev>>

conversionVars == <<previouslySelected, selectedClass, viewSelection>>

highlightVars == <<highlightStack, activeVisual, hop>>

utilsVars == <<isEdge, editables, uop, insertion>>

vars == <<toolbarVars, widgetVars, conversionVars, highlightVars, utilsVars>>

(***************************************************************************)
(*                        WidgetToolbarRepository                          *)
(***************************************************************************)

\* Bounds of the toolbar model.
MaxToolbars == 2        \* toolbar ids are 1..MaxToolbars
MaxDepth == 2           \* related elements have 0..MaxDepth ancestors
MaxViews == 3           \* register() is called at most MaxViews times

ToolbarIds == 1..MaxToolbars

\* A view element a resolver may return, known to the repository only through
\* the number of its ancestors; NoElement is the resolver's null.
NoElement == [none |-> TRUE]
RelatedElements == {[depth |-> d] : d \in 0..MaxDepth}

\* The balloonClassName default of register() and one override.
DefaultBalloonClassName == "ck-toolbar-container"
BalloonClassNames == {DefaultBalloonClassName, "custom-container"}

\* A view some other plugin puts into the same ContextualBalloon.
ExternalView == 0

NoError == [name |-> "none"]

\* relatedElement.getAncestors().length
AncestorsLength(relatedElement) == relatedElement.depth

---------------------------------------------------------------------------
\* The ContextualBalloon, as the repository uses it.

\* balloon.visibleView: the view on top of the stack, or null (here -1).
VisibleView(s) == IF Len(s) = 0 THEN -1 ELSE s[Len(s)].view

\* balloon.hasView( view )
HasView(s, view) == \E i \in 1..Len(s) : s[i].view = view

\* balloon.add( { view, position, balloonClassName } ): the view goes on top.
BalloonAdd(s, view, target, balloonClassName) ==
    Append(s, [view |-> view, target |-> target, balloonClassName |-> balloonClassName])

\* balloon.remove( view ): the view leaves the stack; the one below, if any, shows.
BalloonRemove(s, view) == SelectSeq(s, LAMBDA e : e.view # view)

\* balloon.updatePosition( position ): the visible view's position is replaced.
BalloonUpdatePosition(s, target) ==
    IF Len(s) = 0 THEN s ELSE [s EXCEPT ![Len(s)].target = target]

---------------------------------------------------------------------------
\* _isToolbarVisible( toolbar )
IsToolbarVisible(s, definition) == VisibleView(s) = definition.view

\* A variant that removes the toolbar's view wherever it is in the stack.
HideToolbarEvenIfCovered(s, definition) == BalloonRemove(s, definition.view)

\* _hideToolbar( toolbarDefinition )
HideToolbar(s, definition) ==
    IF ~IsToolbarVisible(s, definition)
    THEN s
    ELSE BalloonRemove(s, definition.view)

\* A variant that does not ask the balloon whether it has the view.
ShowToolbarWithoutHasView(s, definition, relatedElement) ==
    IF VisibleView(s) = definition.view
    THEN BalloonUpdatePosition(s, relatedElement)
    ELSE BalloonAdd(s, definition.view, relatedElement, definition.balloonClassName)

\* _showToolbar( toolbarDefinition, relatedElement )
ShowToolbar(s, definition, relatedElement) ==
    IF IsToolbarVisible(s, definition)
    THEN BalloonUpdatePosition(s, relatedElement)
    ELSE IF ~HasView(s, definition.view)
         THEN BalloonAdd(s, definition.view, relatedElement, definition.balloonClassName)
         ELSE s

\* The state of the loop of _updateToolbarsVisibility() before any definition
\* is visited.
LoopStart(s) ==
    [stack |-> s,
     maxRelatedElementDepth |-> 0,
     deepestRelatedElement |-> NoElement,
     deepestToolbarDefinition |-> 0]

\* One iteration of the loop of _updateToolbarsVisibility(), for `definition`.
LoopStep(st, definition, related, focused) ==
    LET relatedElement == related[definition.toolbarId] IN
    IF ~focused \/ relatedElement = NoElement
    THEN [st EXCEPT !.stack = HideToolbar(st.stack, definition)]
    ELSE LET relatedElementDepth == AncestorsLength(relatedElement) IN
         IF relatedElementDepth > st.maxRelatedElementDepth
         THEN [st EXCEPT !.maxRelatedElementDepth = relatedElementDepth,
                         !.deepestRelatedElement = relatedElement,
                         !.deepestToolbarDefinition = definition.toolbarId]
         ELSE st

\* The loop over this._toolbarDefinitions.values(), in insertion order, from
\* definition i on.
RECURSIVE Loop(_, _, _, _, _)
Loop(defs, i, st, related, focused) ==
    IF i > Len(defs)
    THEN st
    ELSE Loop(defs, i + 1, LoopStep(st, defs[i], related, focused), related, focused)

\* The definition registered under toolbarId.
DefinitionOf(defs, toolbarId) ==
    defs[CHOOSE i \in 1..Len(defs) : defs[i].toolbarId = toolbarId]

\* _updateToolbarsVisibility(): the stack it leaves.
UpdateToolbarsVisibility(defs, s, related, focused) ==
    LET st == Loop(defs, 1, LoopStart(s), related, focused) IN
    IF st.deepestToolbarDefinition # 0
    THEN ShowToolbar(st.stack,
                     DefinitionOf(defs, st.deepestToolbarDefinition),
                     st.deepestRelatedElement)
    ELSE st.stack

\* The toolbar _updateToolbarsVisibility() decides to show (0: none).
DeepestToolbar(defs, s, related, focused) ==
    Loop(defs, 1, LoopStart(s), related, focused).deepestToolbarDefinition

\* this._toolbarDefinitions.has( toolbarId )
IsRegistered(defs, toolbarId) ==
    \E i \in 1..Len(defs) : defs[i].toolbarId = toolbarId

---------------------------------------------------------------------------
\* The record of an operation: its name, its inputs and the state before it.
OpRecord(name, toolbarId, related, thrown) ==
    [name |-> name,
     toolbarId |-> toolbarId,
     related |-> related,
     thrown |-> thrown,
     preDefinitions |-> toolbarDefinitions,
     preStack |-> stack]

NoRelated == [id \in ToolbarIds |-> NoElement]

\* A register() that stores the record without looking for the id first.
RegisterOverwriting(toolbarId, balloonClassName) ==
    /\ viewsCreated < MaxViews
    /\ viewsCreated' = viewsCreated + 1
    /\ toolbarDefinitions' =
           IF IsRegistered(toolbarDefinitions, toolbarId)
           THEN [i \in 1..Len(toolbarDefinitions) |->
                    IF toolbarDefinitions[i].toolbarId = toolbarId
                    THEN [toolbarId |-> toolbarId,
                          view |-> viewsCreated + 1,
                          balloonClassName |-> balloonClassName]
                    ELSE toolbarDefinitions[i]]
           ELSE Append(toolbarDefinitions,
                       [toolbarId |-> toolbarId,
                        view |-> viewsCreated + 1,
                        balloonClassName |-> balloonClassName])
    /\ op' = OpRecord("register", toolbarId, NoRelated, NoError)
    /\ UNCHANGED <<stack, isFocused>>
    /\ UNCHANGED <<widgetVars, conversionVars, highlightVars, utilsVars>>

\* register( toolbarId, { items, getRelatedElement, balloonClassName } )
Register(toolbarId, balloonClassName) ==
    /\ viewsCreated < MaxViews
    /\ viewsCreated' = viewsCreated + 1          \* new ToolbarView()
    /\ IF IsRegistered(toolbarDefinitions, toolbarId)
       THEN /\ toolbarDefinitions' = toolbarDefinitions
            /\ op' = OpRecord("register", toolbarId, NoRelated,
                              [name |-> "widget-toolbar-duplicated",
                               toolbarId |-> toolbarId])
       ELSE /\ toolbarDefinitions' =
                   Append(toolbarDefinitions,
                          [toolbarId |-> toolbarId,
                           view |-> viewsCreated + 1,
                           balloonClassName |-> balloonClassName])
            /\ op' = OpRecord("register", toolbarId, NoRelated, NoError)
    /\ UNCHANGED <<stack, isFocused>>
    /\ UNCHANGED <<widgetVars, conversionVars, highlightVars, utilsVars>>

\* The editor.ui 'update' listener; `related` is what each resolver returns
\* for the current view selection.
UiUpdate(related) ==
    /\ stack' = UpdateToolbarsVisibility(toolbarDefinitions, stack, related, isFocused)
    /\ op' = OpRecord("update", 0, related, NoError)
    /\ UNCHANGED <<toolbarDefinitions, isFocused, viewsCreated>>
    /\ UNCHANGED <<widgetVars, conversionVars, highlightVars, utilsVars>>

\* The focusTracker 'change:isFocused' listener: it runs with the new value.
FocusChange(related) ==
    /\ isFocused' = ~isFocused
    /\ stack' = UpdateToolbarsVisibility(toolbarDefinitions, stack, related, ~isFocused)
    /\ op' = OpRecord("update", 0, related, NoError)
    /\ UNCHANGED <<toolbarDefinitions, viewsCreated>>
    /\ UNCHANGED <<widgetVars, conversionVars, highlightVars, utilsVars>>

\* Another plugin adds its view to the balloon.
ExternalAdd ==
    /\ ~HasView(stack, ExternalView)
    /\ stack' = BalloonAdd(stack, ExternalView, NoElement, "external")
    /\ op' = OpRecord("external", 0, NoRelated, NoError)
    /\ UNCHANGED <<toolbarDefinitions, isFocused, viewsCreated>>
    /\ UNCHANGED <<widgetVars, conversionVars, highlightVars, utilsVars>>

\* Another plugin removes its view from the balloon.
ExternalRemove ==
    /\ HasView(stack, ExternalView)
    /\ stack' = BalloonRemove(stack, ExternalView)
    /\ op' = OpRecord("external", 0, NoRelated, NoError)
    /\ UNCHANGED <<toolbarDefinitions, isFocused, viewsCreated>>
    /\ UNCHANGED <<widgetVars, conversionVars, highlightVars, utilsVars>>

\* No descriptor: the element has no visual applied, the stack has no winner.
NoDescriptor == [id |-> 0, priority |-> 0, classes |-> ""]

\* The highlight handling of an element no descriptor was added to.
HighlightIdle ==
    /\ highlightStack = <<>>
    /\ activeVisual = NoDescriptor
    /\ hop = [name |-> "init", descriptor |-> NoDescriptor, id |-> 0, calls |-> <<>>,
              preStack |-> <<>>, preActive |-> NoDescriptor]

MaxEditables == 3       \* the view has the editable elements 1..MaxEditables

EditableIds == 1..MaxEditables
NoAttribute == "undefined"
NoPosition == -1

\* An editable element toWidgetEditable() was not called on.
PlainEditable(readOnly) ==
    [isReadOnly |-> readOnly, isWidgetEditable |-> FALSE, contenteditable |-> NoAttribute]

NoInsertion == [called |-> FALSE, sel |-> [anchor |-> 0, focus |-> 0], position |-> NoPosition]

\* The utilities' state while they are not exercised.
UtilsIdle ==
    /\ isEdge = FALSE
    /\ editables = [e \in EditableIds |-> PlainEditable(FALSE)]
    /\ uop = [name |-> "init", element |-> 0]
    /\ insertion = NoInsertion

\* The selection converter's state before the first conversion: nothing was
\* marked and the view selection is a caret at the start of the root.
ConversionIdle ==
    /\ previouslySelected = {}
    /\ selectedClass = {}
    /\ viewSelection = [ranges |-> <<[start |-> 0, end |-> 0]>>,
                        isFake |-> FALSE, label |-> ""]

\* The Widget plugin's state while only the toolbar repository is exercised.
WidgetIdle ==
    /\ doc = <<>>
    /\ sel = [anchor |-> 0, focus |-> 0]
    /\ created = 0
    /\ isReadOnly = FALSE
    /\ ev = [name |-> "idle"]
    /\ ConversionIdle
    /\ HighlightIdle
    /\ UtilsIdle

\* init(): an empty registry; nothing was asked of the balloon yet.
InitToolbar ==
    /\ WidgetIdle
    /\ toolbarDefinitions = <<>>
    /\ stack = <<>>
    /\ isFocused \in BOOLEAN
    /\ viewsCreated = 0
    /\ op = [name |-> "init", toolbarId |-> 0, related |-> NoRelated,
             thrown |-> NoError, preDefinitions |-> <<>>, preStack |-> <<>>]

Resolutions == [ToolbarIds -> RelatedElements \cup {NoElement}]

NextToolbar ==
    \/ \E toolbarId \in ToolbarIds, balloonClassName \in BalloonClassNames :
           Register(toolbarId, balloonClassName)
    \/ \E related \in Resolutions : UiUpdate(related)
    \/ \E related \in Resolutions : FocusChange(related)
    \/ ExternalAdd
    \/ ExternalRemove

SpecToolbar == InitToolbar /\ [][NextToolbar]_vars

---------------------------------------------------------------------------
\* Properties of the toolbar repository.

\* The toolbars registered when the last operation began, by id.
RegisteredIds == {toolbarDefinitions[i].toolbarId : i \in 1..Len(toolbarDefinitions)}

\* The place of a toolbar in the registration order.
RegistrationIndex(toolbarId) ==
    CHOOSE i \in 1..Len(toolbarDefinitions) : toolbarDefinitions[i].toolbarId = toolbarId

ViewOf(toolbarId) == DefinitionOf(toolbarDefinitions, toolbarId).view

\* The last operation was an update pass (UI update or focus change).
PassDone == op.name = "update"

\* Toolbar a is eligible in the last pass: the host had focus and its resolver
\* returned an element.
Eligible(a) == isFocused /\ op.related[a] # NoElement

\* The toolbar the last pass chose to show (0: none).
Chosen == DeepestToolbar(toolbarDefinitions, op.preStack, op.related, isFocused)

\* Only toolbar views are in the balloon, before and after the last operation.
OnlyToolbarViews == ~HasView(op.preStack, ExternalView) /\ ~HasView(stack, ExternalView)

\* C1 (as claimed): after an update pass run with focus, of two registered
\* toolbars whose resolvers both returned an element (every other resolver
\* returning null), the one whose element has more ancestors is the visible
\* view, whatever the registration order and whatever toolbar views earlier
\* passes left in the balloon; with equally many ancestors the one registered
\* first is the visible view.  Stated for elements that have an ancestor and
\* for a balloon that holds toolbar views only.
C1_DeeperToolbarIsShown ==
    (PassDone /\ isFocused /\ OnlyToolbarViews) =>
        \A a, b \in RegisteredIds :
            (/\ a # b
             /\ Eligible(a) /\ Eligible(b)
             /\ AncestorsLength(op.related[a]) >= 1
             /\ AncestorsLength(op.related[b]) >= 1
             /\ \A c \in RegisteredIds \ {a, b} : op.related[c] = NoElement)
            => /\ AncestorsLength(op.related[a]) > AncestorsLength(op.related[b])
                    => VisibleView(stack) = ViewOf(a)
               /\ (/\ AncestorsLength(op.related[a]) = AncestorsLength(op.related[b])
                   /\ RegistrationIndex(a) < RegistrationIndex(b))
                    => VisibleView(stack) = ViewOf(a)

\* C2 (as claimed): an update pass removes from the balloon every eligible
\* toolbar that it did not choose and whose view was the visible one when the
\* pass began.  Stated for related elements that have an ancestor.
C2_EligibleNotChosenIsHidden ==
    PassDone =>
        \A a \in RegisteredIds :
            (/\ Eligible(a)
             /\ AncestorsLength(op.related[a]) >= 1
             /\ a # Chosen
             /\ VisibleView(op.preStack) = ViewOf(a))
            => ~HasView(stack, ViewOf(a))

\* C3 (as claimed): after an update pass run without focus, or with every
\* resolver returning null, no registered toolbar's view is the visible view.
C3_NothingShownWithoutFocus ==
    (PassDone /\ (~isFocused \/ \A a \in RegisteredIds : op.related[a] = NoElement)) =>
        \A a \in RegisteredIds : VisibleView(stack) # ViewOf(a)

\* C4: register() with an id that is already registered throws
\* widget-toolbar-duplicated carrying that id, and the registry (every record
\* and the order of the records) is as it was before the call.
C4_DuplicateRegisterThrows ==
    (op.name = "register" /\ IsRegistered(op.preDefinitions, op.toolbarId)) =>
        /\ op.thrown = [name |-> "widget-toolbar-duplicated", toolbarId |-> op.toolbarId]
        /\ toolbarDefinitions = op.preDefinitions

\* C4 witness: a duplicate register() of the first of two registered toolbars,
\* asking for another class name than the stored one.
C4_Witness ==
    /\ op.name = "register"
    /\ Len(op.preDefinitions) = 2
    /\ op.preDefinitions[1].toolbarId = op.toolbarId
    /\ op.thrown # NoError
    /\ viewsCreated = 3


(***************************************************************************)
(*                                Widget                                   *)
(***************************************************************************)

\* Bounds of the widget model.
MaxBlocks == 2          \* the initial document has 1..MaxBlocks top-level blocks
MaxCreated == 1         \* writer.createElement() is called at most MaxCreated times

---------------------------------------------------------------------------
\* The model document.  The content of the root is a sequence of tokens: the
\* start of an element, its end, or one character of text.  A position is the
\* number of tokens before it (0..Len(d)): each gap between two tokens is one
\* position of the tree.  Elements are named by their id; the root has id 0.

RootId == 0
NoId == -1

Open(name, id) == [k |-> "open", name |-> name, id |-> id]
Close(name, id) == [k |-> "close", name |-> name, id |-> id]
Char == [k |-> "text", name |-> "$text", id |-> NoId]
NoNode == [k |-> "none", name |-> "", id |-> NoId]

\* The schema of the modelled editor: paragraphs and block quotes, a block
\* object (widget) that may hold a nested editable, and an inline object.
\* schema.isObject( item )
IsObject(name) == name \in {"widget", "inlineWidget"}

\* schema.isLimit( item ): limit elements, and every object
IsLimit(name) == name \in {"$root", "nested"} \/ IsObject(name)

\* schema.checkChild( position, '$text' ), by the name of the position's parent
TextAllowedIn(name) == name \in {"paragraph", "nested"}

\* The index of the end token of the element that starts at index i.
CloseIndex(d, i) ==
    CHOOSE j \in (i + 1)..Len(d) : d[j].k = "close" /\ d[j].id = d[i].id

\* The index of the start token of the element that ends at index j.
OpenIndexOfClose(d, j) ==
    CHOOSE i \in 1..(j - 1) : d[i].k = "open" /\ d[i].id = d[j].id

\* Whether element id is attached to the document.
IsAttached(d, id) ==
    id = RootId \/ \E i \in 1..Len(d) : d[i].k = "open" /\ d[i].id = id

\* The index of the start token of element id.
OpenIndex(d, id) == CHOOSE i \in 1..Len(d) : d[i].k = "open" /\ d[i].id = id

\* position.parent, as the index of its start token (0: the root): the
\* nearest start token before p whose element is not closed before p.
\* `closed` counts the end tokens seen on the way back from p to i.
RECURSIVE OpenBefore(_, _, _)
OpenBefore(d, i, closed) ==
    IF i = 0 THEN 0
    ELSE IF d[i].k = "close" THEN OpenBefore(d, i - 1, closed + 1)
    ELSE IF d[i].k = "text" THEN OpenBefore(d, i - 1, closed)
    ELSE IF closed = 0 THEN i
    ELSE OpenBefore(d, i - 1, closed - 1)

ParentIndex(d, p) == OpenBefore(d, p, 0)

\* The start tokens of the elements that contain position p, from the
\* start token i of its parent outwards.
RECURSIVE AncestorsFrom(_, _)
AncestorsFrom(d, i) ==
    IF i = 0 THEN {} ELSE {i} \cup AncestorsFrom(d, OpenBefore(d, i - 1, 0))

Enclosing(d, p) == AncestorsFrom(d, ParentIndex(d, p))

\* The greatest member of a non-empty set of numbers.
Maximum(S) == CHOOSE x \in S : \A y \in S : y <= x

\* position.parent, by id and by name.
ParentId(d, p) == IF ParentIndex(d, p) = 0 THEN RootId ELSE d[ParentIndex(d, p)].id
ParentName(d, p) == IF ParentIndex(d, p) = 0 THEN "$root" ELSE d[ParentIndex(d, p)].name

\* The name of element id.
NameOf(d, id) == IF id = RootId THEN "$root" ELSE d[OpenIndex(d, id)].name

\* element.parent, by id (the root has none).
ElementParentId(d, id) ==
    IF id = RootId THEN NoId ELSE ParentId(d, OpenIndex(d, id) - 1)

\* schema.checkChild( position, '$text' )
TextAllowedAt(d, p) == TextAllowedIn(ParentName(d, p))

\* position.nodeAfter: the node that starts at p; null at the end of the
\* parent and inside a text node.
NodeAfter(d, p) ==
    IF p >= Len(d) THEN NoNode
    ELSE IF d[p + 1].k = "open" THEN d[p + 1]
    ELSE IF d[p + 1].k = "text" /\ ~(p >= 1 /\ d[p].k = "text") THEN d[p + 1]
    ELSE NoNode

\* position.nodeBefore: the node that ends at p; null at the start of the
\* parent and inside a text node.
NodeBefore(d, p) ==
    IF p = 0 THEN NoNode
    ELSE IF d[p].k = "close" THEN d[p]
    ELSE IF d[p].k = "text" /\ ~(p < Len(d) /\ d[p + 1].k = "text") THEN d[p]
    ELSE NoNode

\* element.isEmpty
IsEmpty(d, id) ==
    IF id = RootId THEN Len(d) = 0
    ELSE CloseIndex(d, OpenIndex(d, id)) = OpenIndex(d, id) + 1

---------------------------------------------------------------------------
\* Ranges and selections.  A selection holds one range with an anchor and a
\* focus; a range is a pair of positions, start first.

Minimum2(a, b) == IF a <= b THEN a ELSE b
Maximum2(a, b) == IF a >= b THEN a ELSE b

\* selection.getFirstPosition() / getLastPosition()
FirstPosition(s) == Minimum2(s.anchor, s.focus)
LastPosition(s) == Maximum2(s.anchor, s.focus)

\* selection.isCollapsed
IsCollapsed(s) == s.anchor = s.focus

\* writer.setSelection( range ): the anchor is the start of the range.
SelectionOfRange(r) == [anchor |-> r.start, focus |-> r.end]

\* writer.createRangeOn( element )
RangeOn(d, id) ==
    [start |-> OpenIndex(d, id) - 1, end |-> CloseIndex(d, OpenIndex(d, id))]

\* writer.createRangeIn( element )
RangeIn(d, id) ==
    IF id = RootId
    THEN [start |-> 0, end |-> Len(d)]
    ELSE [start |-> OpenIndex(d, id), end |-> CloseIndex(d, OpenIndex(d, id)) - 1]

\* selection.getSelectedElement(): the element a single range contains
\* exactly (the node after its start is the node before its end), or null.
SelectedElement(d, s) ==
    LET a == NodeAfter(d, FirstPosition(s))
        b == NodeBefore(d, LastPosition(s))
    IN  IF a.k = "open" /\ b.k = "close" /\ a.id = b.id THEN a.id ELSE NoId

\* range.getCommonAncestor(), by id: the innermost element that contains
\* both ends.
CommonAncestorId(d, s) ==
    LET both == Enclosing(d, FirstPosition(s)) \cap Enclosing(d, LastPosition(s))
    IN  IF both = {} THEN RootId ELSE d[Maximum(both)].id

\* schema.getLimitElement( selection ): from the common ancestor of the
\* selection's range up to the first limit element (or the root).
RECURSIVE LimitFrom(_, _)
LimitFrom(d, id) ==
    IF IsLimit(NameOf(d, id)) \/ id = RootId
    THEN id
    ELSE LimitFrom(d, ElementParentId(d, id))

GetLimitElement(d, s) == LimitFrom(d, CommonAncestorId(d, s))

---------------------------------------------------------------------------
\* The engine's selection utilities, as the plugin calls them.

NoRange == [start |-> NoPosition, end |-> NoPosition]

\* model.modifySelection( probe, { direction: 'forward' } ), unit character:
\* the tree walker's next value is token i.  A character extends the focus
\* over it; an object that is entered extends it over the whole object; a
\* limit element that is left stops the walk; any other boundary extends the
\* focus to the position behind it if text is allowed there.
RECURSIVE ExtendForward(_, _)
ExtendForward(d, i) ==
    IF i > Len(d) THEN NoPosition
    ELSE IF d[i].k = "text" THEN i
    ELSE IF d[i].k = "open"
         THEN IF IsObject(d[i].name) THEN CloseIndex(d, i)
              ELSE IF TextAllowedAt(d, i) THEN i
              ELSE ExtendForward(d, i + 1)
         ELSE IF IsLimit(d[i].name) THEN NoPosition
              ELSE IF TextAllowedAt(d, i) THEN i
              ELSE ExtendForward(d, i + 1)

\* model.modifySelection( probe, { direction: 'backward' } ): the walker's
\* next value is token i, read backward.
RECURSIVE ExtendBackward(_, _)
ExtendBackward(d, i) ==
    IF i < 1 THEN NoPosition
    ELSE IF d[i].k = "text" THEN i - 1
    ELSE IF d[i].k = "close"
         THEN IF IsObject(d[i].name) THEN OpenIndexOfClose(d, i) - 1
              ELSE IF TextAllowedAt(d, i - 1) THEN i - 1
              ELSE ExtendBackward(d, i - 1)
         ELSE IF IsLimit(d[i].name) THEN NoPosition
              ELSE IF TextAllowedAt(d, i - 1) THEN i - 1
              ELSE ExtendBackward(d, i - 1)

\* The focus of the probe after model.modifySelection(): unchanged when the
\* walk finds no place to extend to.
ModifySelection(d, focus, forward) ==
    LET r == IF forward THEN ExtendForward(d, focus + 1) ELSE ExtendBackward(d, focus)
    IN  IF r = NoPosition THEN focus ELSE r

\* schema.getNearestSelectionRange( position, 'forward' ) from a position
\* where text is not allowed: the walker's next value is token i.
RECURSIVE NearestForward(_, _)
NearestForward(d, i) ==
    IF i > Len(d) THEN NoRange
    ELSE IF d[i].k = "open" /\ IsObject(d[i].name)
         THEN [start |-> i - 1, end |-> CloseIndex(d, i)]
    ELSE IF TextAllowedAt(d, i) THEN [start |-> i, end |-> i]
    ELSE NearestForward(d, i + 1)

\* schema.getNearestSelectionRange( position, 'backward' ), likewise.
RECURSIVE NearestBackward(_, _)
NearestBackward(d, i) ==
    IF i < 1 THEN NoRange
    ELSE IF d[i].k = "close" /\ IsObject(d[i].name)
         THEN [start |-> OpenIndexOfClose(d, i) - 1, end |-> i]
    ELSE IF TextAllowedAt(d, i - 1) THEN [start |-> i - 1, end |-> i - 1]
    ELSE NearestBackward(d, i - 1)

\* schema.getNearestSelectionRange( position, direction )
GetNearestSelectionRange(d, p, forward) ==
    IF TextAllowedAt(d, p) THEN [start |-> p, end |-> p]
    ELSE IF forward THEN NearestForward(d, p + 1)
    ELSE NearestBackward(d, p)

---------------------------------------------------------------------------
\* The editing view.  Every model element has one view element; the view
\* element of an object is a widget (toWidget()) and holds, besides the
\* converted children, one inner element that has no model counterpart (an
\* <img>, a selection handler).  The text of an element is held by an
\* attribute element (a <strong>), which has no model counterpart either.
\* The view root and the view elements of nested editables are editable
\* elements.

ViewElement(id) == [id |-> id, part |-> "element"]
InnerElement(id) == [id |-> id, part |-> "inner"]
AttributeElement(id) == [id |-> id, part |-> "attribute"]
NoViewNode == [id |-> NoId, part |-> "none"]

\* The ids of the elements of the document (without the root).
ElementIds(d) == {d[i].id : i \in {j \in 1..Len(d) : d[j].k = "open"}}
ObjectIds(d) == {id \in ElementIds(d) : IsObject(NameOf(d, id))}

\* The ids of the elements that hold text.
TextHolderIds(d) == {ParentId(d, i) : i \in {j \in 1..Len(d) : d[j].k = "text"}}

\* The elements of the view document.
ViewNodes(d) ==
    {ViewElement(id) : id \in ElementIds(d) \cup {RootId}}
        \cup {InnerElement(id) : id \in ObjectIds(d)}
        \cup {AttributeElement(id) : id \in TextHolderIds(d)}

\* isWidget( node )
IsWidget(d, v) == v.part = "element" /\ v.id # RootId /\ IsObject(NameOf(d, v.id))

\* element.is( 'editableElement' ) / element.is( 'rootElement' )
IsEditableElement(d, v) == v.part = "element" /\ NameOf(d, v.id) \in {"$root", "nested"}
IsRootElement(v) == v.part = "element" /\ v.id = RootId

\* element.parent, in the view
ViewParent(d, v) ==
    IF v.part \in {"inner", "attribute"} THEN ViewElement(v.id)
    ELSE IF v.id = RootId THEN NoViewNode
    ELSE ViewElement(ElementParentId(d, v.id))

\* editor.editing.mapper.toModelElement( viewElement )
ToModelElement(v) == IF v.part = "element" THEN v.id ELSE NoId

\* editor.editing.mapper.toViewElement( modelElement )
ToViewElement(id) == IF id = NoId THEN NoViewNode ELSE ViewElement(id)

\* A variant of isInsideNestedEditable that looks at the element alone and
\* does not walk up to its ancestors.
IsNestedEditableItself(d, element) ==
    element # NoViewNode /\ IsEditableElement(d, element) /\ ~IsRootElement(element)

\* isInsideNestedEditable( element )
RECURSIVE IsInsideNestedEditable(_, _)
IsInsideNestedEditable(d, element) ==
    IF element = NoViewNode THEN FALSE
    ELSE IF IsEditableElement(d, element) /\ ~IsRootElement(element) THEN TRUE
    ELSE IF IsWidget(d, element) THEN FALSE
    ELSE IsInsideNestedEditable(d, ViewParent(d, element))

\* A variant of findAncestor( isWidget ) that returns the outermost widget
\* among the proper ancestors instead of the closest one.
RECURSIVE OutermostWidget(_, _, _)
OutermostWidget(d, v, found) ==
    IF v = NoViewNode THEN found
    ELSE OutermostWidget(d, ViewParent(d, v), IF IsWidget(d, v) THEN v ELSE found)

FindOutermostAncestorWidget(d, element) ==
    OutermostWidget(d, ViewParent(d, element), NoViewNode)

\* element.findAncestor( isWidget ): the closest widget among the proper
\* ancestors; ClosestWidget looks at the node itself first.
RECURSIVE ClosestWidget(_, _)
ClosestWidget(d, v) ==
    IF v = NoViewNode THEN NoViewNode
    ELSE IF IsWidget(d, v) THEN v
    ELSE ClosestWidget(d, ViewParent(d, v))

FindAncestorWidget(d, element) == ClosestWidget(d, ViewParent(d, element))

\* The selected element of the view selection, which the editing pipeline
\* keeps converted from the model selection.
ViewSelectedElement(d, s) == ToViewElement(SelectedElement(d, s))

---------------------------------------------------------------------------
\* Key codes (keyCodes of ckeditor5-utils/keyboard) and getCode().

ArrowLeft == 37
ArrowUp == 38
ArrowRight == 39
ArrowDown == 40
Enter == 13
Delete == 46
LetterA == 65
CtrlModifier == 1114112     \* keyCodes.ctrl, 0x110000
ShiftModifier == 2228224    \* keyCodes.shift, 0x220000

KeyCodes == {ArrowLeft, ArrowUp, ArrowRight, ArrowDown, Enter, Delete, LetterA}

\* The key events the plugin is exercised with: every key alone, Enter and
\* one arrow key with Shift, and the letter A with Ctrl and with Ctrl+Shift.
KeyEvents ==
    {key \in [keyCode : KeyCodes, ctrlKey : BOOLEAN, shiftKey : BOOLEAN] :
        /\ key.ctrlKey => key.keyCode = LetterA
        /\ key.shiftKey => (key.keyCode \in {Enter, ArrowRight} \/ key.ctrlKey)}
NoKey == [keyCode |-> 0, ctrlKey |-> FALSE, shiftKey |-> FALSE]

\* getCode( domEventData ): the key code plus the codes of the modifiers held.
GetCode(key) ==
    key.keyCode + (IF key.ctrlKey THEN CtrlModifier ELSE 0)
                + (IF key.shiftKey THEN ShiftModifier ELSE 0)

\* selectAllKeystrokeCode = parseKeystroke( 'Ctrl+A' )
SelectAllKeystrokeCode == LetterA + CtrlModifier

\* A variant that takes the Delete key for an arrow key as well.
IsArrowOrDeleteKeyCode(keyCode) ==
    keyCode \in {ArrowRight, ArrowLeft, ArrowUp, ArrowDown, Delete}

\* isArrowKeyCode( keyCode )
IsArrowKeyCode(keyCode) ==
    keyCode = ArrowRight \/ keyCode = ArrowLeft \/ keyCode = ArrowUp \/ keyCode = ArrowDown

\* isSelectAllKeyCode( domEventData )
IsSelectAllKeyCode(key) == GetCode(key) = SelectAllKeystrokeCode

\* _onKeydown: isForward
IsForwardKey(keyCode) ==
    keyCode = Delete \/ keyCode = ArrowDown \/ keyCode = ArrowRight

---------------------------------------------------------------------------
\* The handlers of the Widget plugin.  Each returns what it reports (handled)
\* and the model state it leaves.

\* _setSelectionOverElement( element )
SetSelectionOverElement(d, id) == SelectionOfRange(RangeOn(d, id))

\* _getObjectElementNextToSelection( forward ), by id (NoId: null)
GetObjectElementNextToSelection(d, s, forward) ==
    LET probeFocus == ModifySelection(d, s.focus, forward)
        objectElement == IF forward THEN NodeBefore(d, probeFocus)
                                    ELSE NodeAfter(d, probeFocus)
    IN  IF objectElement # NoNode /\ IsObject(objectElement.name)
        THEN objectElement.id
        ELSE NoId

\* A variant of _handleArrowKeys that reports handled for a selected object
\* only when a new range was found.
HandleArrowKeysOnlyWithRange(d, s, isForward) ==
    LET objectElement == SelectedElement(d, s) IN
    IF objectElement # NoId /\ IsObject(NameOf(d, objectElement))
    THEN LET position == IF isForward THEN LastPosition(s) ELSE FirstPosition(s)
             newRange == GetNearestSelectionRange(d, position, isForward)
         IN  [handled |-> newRange # NoRange,
              sel |-> IF newRange # NoRange THEN SelectionOfRange(newRange) ELSE s]
    ELSE IF ~IsCollapsed(s)
    THEN [handled |-> FALSE, sel |-> s]
    ELSE LET objectElement2 == GetObjectElementNextToSelection(d, s, isForward) IN
         IF objectElement2 # NoId /\ IsObject(NameOf(d, objectElement2))
         THEN [handled |-> TRUE, sel |-> SetSelectionOverElement(d, objectElement2)]
         ELSE [handled |-> FALSE, sel |-> s]

\* _handleArrowKeys( isForward )
HandleArrowKeys(d, s, isForward) ==
    LET objectElement == SelectedElement(d, s) IN
    IF objectElement # NoId /\ IsObject(NameOf(d, objectElement))
    THEN LET position == IF isForward THEN LastPosition(s) ELSE FirstPosition(s)
             newRange == GetNearestSelectionRange(d, position, isForward)
         IN  [handled |-> TRUE,
              sel |-> IF newRange # NoRange THEN SelectionOfRange(newRange) ELSE s]
    ELSE IF ~IsCollapsed(s)
    THEN [handled |-> FALSE, sel |-> s]
    ELSE LET objectElement2 == GetObjectElementNextToSelection(d, s, isForward) IN
         IF objectElement2 # NoId /\ IsObject(NameOf(d, objectElement2))
         THEN [handled |-> TRUE, sel |-> SetSelectionOverElement(d, objectElement2)]
         ELSE [handled |-> FALSE, sel |-> s]

\* A variant of _selectAllNestedEditableContent without the test for the
\* root: it selects all content of the limit element whatever it is.
SelectAllLimitElementContent(d, s) ==
    LET limitElement == GetLimitElement(d, s) IN
    [handled |-> TRUE, sel |-> SelectionOfRange(RangeIn(d, limitElement))]

\* _selectAllNestedEditableContent()
SelectAllNestedEditableContent(d, s) ==
    LET limitElement == GetLimitElement(d, s) IN
    IF limitElement = RootId
    THEN [handled |-> FALSE, sel |-> s]
    ELSE [handled |-> TRUE, sel |-> SelectionOfRange(RangeIn(d, limitElement))]

\* A variant of _selectAllContent that selects the content of the selected
\* widget instead of the content of its parent.
SelectAllContentOfWidget(d, s) ==
    LET selectedElement == ViewSelectedElement(d, s) IN
    IF selectedElement # NoViewNode /\ IsWidget(d, selectedElement)
    THEN [handled |-> TRUE,
          sel |-> SelectionOfRange(RangeIn(d, ToModelElement(selectedElement)))]
    ELSE [handled |-> FALSE, sel |-> s]

\* _selectAllContent()
SelectAllContent(d, s) ==
    LET selectedElement == ViewSelectedElement(d, s) IN
    IF selectedElement # NoViewNode /\ IsWidget(d, selectedElement)
    THEN LET widgetParent == ToModelElement(ViewParent(d, selectedElement))
         IN  [handled |-> TRUE, sel |-> SelectionOfRange(RangeIn(d, widgetParent))]
    ELSE [handled |-> FALSE, sel |-> s]

\* writer.insert( element, position ): the tokens go in at position p.
InsertAt(d, p, tokens) == SubSeq(d, 1, p) \o tokens \o SubSeq(d, p + 1, Len(d))

\* The id of the element the next writer.createElement() makes.
NewId(n) == 100 + n

\* A variant of _handleEnterKey that inserts the paragraph after the selected
\* object whatever isBackwards is.
HandleEnterKeyAlwaysAfter(d, s, isBackwards, n) ==
    LET objectElement == SelectedElement(d, s) IN
    IF objectElement # NoId /\ IsObject(NameOf(d, objectElement))
    THEN LET p == RangeOn(d, objectElement).end
             paragraph == <<Open("paragraph", NewId(n)), Close("paragraph", NewId(n))>>
         IN  [handled |-> TRUE,
              doc |-> InsertAt(d, p, paragraph),
              sel |-> [anchor |-> p + 1, focus |-> p + 1],
              created |-> n + 1]
    ELSE [handled |-> FALSE, doc |-> d, sel |-> s, created |-> n]

\* _handleEnterKey( isBackwards )
HandleEnterKey(d, s, isBackwards, n) ==
    LET objectElement == SelectedElement(d, s) IN
    IF objectElement # NoId /\ IsObject(NameOf(d, objectElement))
    THEN LET range == RangeOn(d, objectElement)
             p == IF isBackwards THEN range.start ELSE range.end
             paragraph == <<Open("paragraph", NewId(n)), Close("paragraph", NewId(n))>>
         IN  [handled |-> TRUE,
              doc |-> InsertAt(d, p, paragraph),
              sel |-> [anchor |-> p + 1, focus |-> p + 1],
              created |-> n + 1]
    ELSE [handled |-> FALSE, doc |-> d, sel |-> s, created |-> n]

\* data.direction of a delete event.
Directions == {"forward", "backward"}
NoDirection == "none"

\* writer.remove( element ): the document without element id and its content.
Remove(d, id) ==
    SubSeq(d, 1, OpenIndex(d, id) - 1)
        \o SubSeq(d, CloseIndex(d, OpenIndex(d, id)) + 1, Len(d))

\* A variant of the loop that takes a node that holds nothing but text for
\* an empty one.
RECURSIVE RemoveTextOnlyFrom(_, _)
RemoveTextOnlyFrom(d, id) ==
    IF /\ id # RootId
       /\ \A i \in (OpenIndex(d, id) + 1)..(CloseIndex(d, OpenIndex(d, id)) - 1) :
             d[i].k = "text"
    THEN RemoveTextOnlyFrom(Remove(d, id), ElementParentId(d, id))
    ELSE d

\* _handleDelete: `while ( previousNode.isEmpty )`, from previousNode = id
\* upwards; every empty node is removed and its parent looked at next.
RECURSIVE RemoveEmptyFrom(_, _)
RemoveEmptyFrom(d, id) ==
    IF IsEmpty(d, id)
    THEN RemoveEmptyFrom(Remove(d, id), ElementParentId(d, id))
    ELSE d

\* model.change( callback ) entered at the given depth of nesting: a nested
\* block joins the enclosing one, and the state is shown to the listeners of
\* the model when the outermost block ends.
ChangeBlock(depth, blocks, state) ==
    IF depth = 0 THEN Append(blocks, state) ELSE blocks

\* A variant of _handleDelete that does not look at editor.isReadOnly.
HandleDeleteWhenReadOnly(d, s, isForward, readOnly) ==
    IF ~IsCollapsed(s)
    THEN [handled |-> FALSE, doc |-> d, sel |-> s, changeBlocks |-> <<>>]
    ELSE LET objectElement == GetObjectElementNextToSelection(d, s, isForward) IN
         IF objectElement = NoId
         THEN [handled |-> FALSE, doc |-> d, sel |-> s, changeBlocks |-> <<>>]
         ELSE LET d1 == RemoveEmptyFrom(d, ParentId(d, s.anchor))
                  s1 == SetSelectionOverElement(d1, objectElement)
              IN  [handled |-> TRUE, doc |-> d1, sel |-> s1,
                   changeBlocks |-> <<[doc |-> d1, sel |-> s1]>>]

\* A variant of _handleDelete that removes the empty ancestors in one change
\* block and selects the object in a second one.
HandleDeleteInTwoBlocks(d, s, isForward, readOnly) ==
    IF readOnly \/ ~IsCollapsed(s)
    THEN [handled |-> FALSE, doc |-> d, sel |-> s, changeBlocks |-> <<>>]
    ELSE LET objectElement == GetObjectElementNextToSelection(d, s, isForward) IN
         IF objectElement = NoId
         THEN [handled |-> FALSE, doc |-> d, sel |-> s, changeBlocks |-> <<>>]
         ELSE LET d1 == RemoveEmptyFrom(d, ParentId(d, s.anchor))
                  s1 == SetSelectionOverElement(d1, objectElement)
                  first == ChangeBlock(0, <<>>, [doc |-> d1, sel |-> [anchor |-> 0, focus |-> 0]])
              IN  [handled |-> TRUE, doc |-> d1, sel |-> s1,
                   changeBlocks |-> ChangeBlock(0, first, [doc |-> d1, sel |-> s1])]

\* A variant of _handleDelete that removes the anchor's parent only, and not
\* the ancestors that become empty with it.
HandleDeleteWithoutCascade(d, s, isForward, readOnly) ==
    IF readOnly \/ ~IsCollapsed(s)
    THEN [handled |-> FALSE, doc |-> d, sel |-> s, changeBlocks |-> <<>>]
    ELSE LET objectElement == GetObjectElementNextToSelection(d, s, isForward) IN
         IF objectElement = NoId
         THEN [handled |-> FALSE, doc |-> d, sel |-> s, changeBlocks |-> <<>>]
         ELSE LET d1 == IF IsEmpty(d, ParentId(d, s.anchor))
                        THEN Remove(d, ParentId(d, s.anchor)) ELSE d
                  s1 == SetSelectionOverElement(d1, objectElement)
              IN  [handled |-> TRUE, doc |-> d1, sel |-> s1,
                   changeBlocks |-> <<[doc |-> d1, sel |-> s1]>>]

\* _handleDelete( isForward ), with editor.isReadOnly = readOnly.  The
\* removals and the nested change block of _setSelectionOverElement run in
\* one outer change block.
HandleDelete(d, s, isForward, readOnly) ==
    IF readOnly
    THEN [handled |-> FALSE, doc |-> d, sel |-> s, changeBlocks |-> <<>>]
    ELSE IF ~IsCollapsed(s)
    THEN [handled |-> FALSE, doc |-> d, sel |-> s, changeBlocks |-> <<>>]
    ELSE LET objectElement == GetObjectElementNextToSelection(d, s, isForward) IN
         IF objectElement = NoId
         THEN [handled |-> FALSE, doc |-> d, sel |-> s, changeBlocks |-> <<>>]
         ELSE LET d1 == RemoveEmptyFrom(d, ParentId(d, s.anchor))
                  s1 == SetSelectionOverElement(d1, objectElement)
                  nested == ChangeBlock(1, <<>>, [doc |-> d1, sel |-> s1])
              IN  [handled |-> TRUE, doc |-> d1, sel |-> s1,
                   changeBlocks |-> ChangeBlock(0, nested, [doc |-> d1, sel |-> s1])]

\* _onKeydown: the handler chosen by the key, and what it leaves.  The
\* select-all branch is `_selectAllNestedEditableContent() ||
\* _selectAllContent()`: the second runs only if the first reports false.
OnKeydown(d, s, n, key) ==
    LET isForward == IsForwardKey(key.keyCode)
        unhandled == [wasHandled |-> FALSE, doc |-> d, sel |-> s, created |-> n,
                      nestedResult |-> FALSE, contentCalled |-> FALSE]
    IN  IF IsArrowKeyCode(key.keyCode)
        THEN LET r == HandleArrowKeys(d, s, isForward) IN
             [unhandled EXCEPT !.wasHandled = r.handled, !.sel = r.sel]
        ELSE IF IsSelectAllKeyCode(key)
        THEN LET r1 == SelectAllNestedEditableContent(d, s) IN
             IF r1.handled
             THEN [unhandled EXCEPT !.wasHandled = TRUE, !.sel = r1.sel,
                                    !.nestedResult = TRUE]
             ELSE LET r2 == SelectAllContent(d, r1.sel) IN
                  [unhandled EXCEPT !.wasHandled = r2.handled, !.sel = r2.sel,
                                    !.contentCalled = TRUE]
        ELSE IF key.keyCode = Enter
        THEN LET r == HandleEnterKey(d, s, key.shiftKey, n) IN
             [unhandled EXCEPT !.wasHandled = r.handled, !.doc = r.doc,
                               !.sel = r.sel, !.created = r.created]
        ELSE unhandled

---------------------------------------------------------------------------
\* The record of an event: its inputs, its outcome, the state before it.
\* direction is data.direction of a delete event; changeBlocks holds, for a
\* delete event, the model states the other listeners can observe: one at
\* the end of each outermost model.change() block the handler ran.
\* isViewFocused is editor.editing.view.document.isFocused as the handler
\* reads it: the focus of the view is the browser's, not the plugin's.
EventRecord(name, target, key, direction, isViewFocused, wasHandled, defaultPrevented, stopped, focusCalled, nestedResult, contentCalled, changeBlocks) ==
    [name |-> name,
     target |-> target,
     key |-> key,
     direction |-> direction,
     changeBlocks |-> changeBlocks,
     isViewFocused |-> isViewFocused,
     wasHandled |-> wasHandled,
     defaultPrevented |-> defaultPrevented,
     stopped |-> stopped,
     focusCalled |-> focusCalled,
     nestedResult |-> nestedResult,
     contentCalled |-> contentCalled,
     preDoc |-> doc,
     preSel |-> sel]

\* No event is being dispatched.
NoEvent ==
    [name |-> "none", target |-> NoViewNode, key |-> NoKey, direction |-> NoDirection,
     changeBlocks |-> <<>>, isViewFocused |-> FALSE,
     wasHandled |-> FALSE, defaultPrevented |-> FALSE, stopped |-> FALSE,
     focusCalled |-> FALSE, nestedResult |-> FALSE, contentCalled |-> FALSE,
     preDoc |-> <<>>, preSel |-> [anchor |-> 0, focus |-> 0]]

\* The view document's 'mousedown' listener: _onMousedown( eventInfo, domEventData )
\* with domEventData.target = target, while viewDocument.isFocused = isViewFocused.
Mousedown(target, isViewFocused) ==
    LET element == IF IsWidget(doc, target) THEN target
                   ELSE FindAncestorWidget(doc, target)
    IN  /\ ev = NoEvent
        /\ IF IsInsideNestedEditable(doc, target) \/ element = NoViewNode
           THEN /\ ev' = EventRecord("mousedown", target, NoKey, NoDirection, isViewFocused,
                                     FALSE, FALSE, FALSE, FALSE, FALSE, FALSE, <<>>)
                /\ UNCHANGED sel
           ELSE /\ ev' = EventRecord("mousedown", target, NoKey, NoDirection, isViewFocused,
                                     TRUE, TRUE, FALSE, ~isViewFocused, FALSE, FALSE, <<>>)
                /\ sel' = SetSelectionOverElement(doc, ToModelElement(element))
        /\ UNCHANGED <<doc, created, isReadOnly>>
        /\ UNCHANGED <<toolbarVars, conversionVars, highlightVars, utilsVars>>

\* The view document's 'keydown' listener (priority high): _onKeydown; a
\* handled key is default-prevented and the event stopped.
Keydown(key) ==
    LET r == OnKeydown(doc, sel, created, key) IN
    /\ ev = NoEvent
    /\ r.created <= MaxCreated
    /\ doc' = r.doc
    /\ sel' = r.sel
    /\ created' = r.created
    /\ UNCHANGED isReadOnly
    /\ ev' = EventRecord("keydown", NoViewNode, key, NoDirection, FALSE, r.wasHandled,
                         r.wasHandled, r.wasHandled, FALSE, r.nestedResult,
                         r.contentCalled, <<>>)
    /\ UNCHANGED <<toolbarVars, conversionVars, highlightVars, utilsVars>>

\* The view document's 'delete' listener (priority high): a handled event is
\* default-prevented and stopped.
DeleteEvent(direction) ==
    LET r == HandleDelete(doc, sel, direction = "forward", isReadOnly) IN
    /\ ev = NoEvent
    /\ doc' = r.doc
    /\ sel' = r.sel
    /\ UNCHANGED <<created, isReadOnly>>
    /\ ev' = EventRecord("delete", NoViewNode, NoKey, direction, FALSE, r.handled,
                         r.handled, r.handled, FALSE, FALSE, FALSE, r.changeBlocks)
    /\ UNCHANGED <<toolbarVars, conversionVars, highlightVars, utilsVars>>

---------------------------------------------------------------------------
\* The documents and selections the plugin is exercised with.

\* The top-level blocks a document is built from; block b uses the ids
\* 10 * b + 1, 10 * b + 2, ...
Shapes == {"p", "pt", "pi", "w", "wn", "bqp", "bqw"}

Block(shape, b) ==
    LET e1 == 10 * b + 1
        e2 == 10 * b + 2
        e3 == 10 * b + 3
    IN  CASE shape = "p" ->     \* <paragraph></paragraph>
                <<Open("paragraph", e1), Close("paragraph", e1)>>
          [] shape = "pt" ->    \* <paragraph>xx</paragraph>
                <<Open("paragraph", e1), Char, Char, Close("paragraph", e1)>>
          [] shape = "pi" ->    \* <paragraph><inlineWidget/></paragraph>
                <<Open("paragraph", e1),
                  Open("inlineWidget", e2), Close("inlineWidget", e2),
                  Close("paragraph", e1)>>
          [] shape = "w" ->     \* <widget/>
                <<Open("widget", e1), Close("widget", e1)>>
          [] shape = "wn" ->    \* <widget><nested>x<inlineWidget/></nested></widget>
                <<Open("widget", e1), Open("nested", e2), Char,
                  Open("inlineWidget", e3), Close("inlineWidget", e3),
                  Close("nested", e2), Close("widget", e1)>>
          [] shape = "bqp" ->   \* <blockQuote><paragraph></paragraph></blockQuote>
                <<Open("blockQuote", e1), Open("paragraph", e2),
                  Close("paragraph", e2), Close("blockQuote", e1)>>
          [] shape = "bqw" ->   \* <blockQuote><widget/></blockQuote>
                <<Open("blockQuote", e1), Open("widget", e2),
                  Close("widget", e2), Close("blockQuote", e1)>>

\* The document made of the blocks of shapes f[1], ..., f[n].
RECURSIVE Blocks(_, _)
Blocks(f, n) == IF n = 0 THEN <<>> ELSE Blocks(f, n - 1) \o Block(f[n], n)

InitialDocuments ==
    UNION {{Blocks(f, n) : f \in [1..n -> Shapes]} : n \in 1..MaxBlocks}

\* The selections the document selection can hold in document d: a caret
\* where text is allowed, a range over one object, or a range between two
\* positions where text is allowed inside the same limit element.  (Ranges
\* are made forward: the handlers read a range that is not collapsed through
\* its first and last position only.)
ValidSelections(d) ==
    LET textPositions == {p \in 0..Len(d) : TextAllowedAt(d, p)}
        carets == {[anchor |-> p, focus |-> p] : p \in textPositions}
        objects == {SetSelectionOverElement(d, id) : id \in ObjectIds(d)}
        ranges == {s \in [anchor : textPositions, focus : textPositions] :
                      /\ s.anchor < s.focus
                      /\ LimitFrom(d, ParentId(d, s.anchor))
                            = LimitFrom(d, ParentId(d, s.focus))}
    IN  carets \cup objects \cup ranges

\* The selection is changed by something else than this plugin (typing, a
\* click outside every widget, another feature).
SelectionChange(s) ==
    /\ ev = NoEvent
    /\ s # sel
    /\ sel' = s
    /\ ev' = NoEvent
    /\ UNCHANGED <<doc, created, isReadOnly>>
    /\ UNCHANGED <<toolbarVars, conversionVars, highlightVars, utilsVars>>

\* The host switches the editor to read-only or back.
SetReadOnly(value) ==
    /\ ev = NoEvent
    /\ value # isReadOnly
    /\ isReadOnly' = value
    /\ UNCHANGED <<doc, sel, created, ev>>
    /\ UNCHANGED <<toolbarVars, conversionVars, highlightVars, utilsVars>>

\* The dispatch of the event ends; the next event finds no record of it.
EventDone ==
    /\ ev # NoEvent
    /\ ev' = NoEvent
    /\ UNCHANGED <<doc, sel, created, isReadOnly>>
    /\ UNCHANGED <<toolbarVars, conversionVars, highlightVars, utilsVars>>

\* The toolbar repository's state while only the Widget plugin is exercised.
ToolbarIdle ==
    /\ toolbarDefinitions = <<>>
    /\ stack = <<>>
    /\ isFocused = FALSE
    /\ viewsCreated = 0
    /\ op = [name |-> "init", toolbarId |-> 0, related |-> NoRelated,
             thrown |-> NoError, preDefinitions |-> <<>>, preStack |-> <<>>]

\* Widget.init() on an editor that holds one of the documents.
Init ==
    /\ ToolbarIdle
    /\ doc \in InitialDocuments
    /\ sel \in ValidSelections(doc)
    /\ created = 0
    /\ isReadOnly \in BOOLEAN
    /\ ev = NoEvent
    /\ ConversionIdle
    /\ HighlightIdle
    /\ UtilsIdle

Next ==
    \/ /\ ev = NoEvent
       /\ \E target \in ViewNodes(doc), isViewFocused \in BOOLEAN :
              Mousedown(target, isViewFocused)
    \/ /\ ev = NoEvent
       /\ \E key \in KeyEvents : Keydown(key)
    \/ /\ ev = NoEvent
       /\ \E direction \in Directions : DeleteEvent(direction)
    \/ /\ ev = NoEvent
       /\ \E s \in ValidSelections(doc) : SelectionChange(s)
    \/ \E value \in BOOLEAN : SetReadOnly(value)
    \/ EventDone

Spec == Init /\ [][Next]_vars

---------------------------------------------------------------------------
\* The selection converter: the listener of the downcast dispatcher's
\* 'selection' event that Widget.init() registers with priority low.  The
\* view mirrors the model, so view positions are written as positions of the
\* token sequence.

MaxViewLength == 7      \* the longest document the converter is exercised with
MaxRanges == 2          \* the most ranges a view selection is given

\* getLabel( element ) of a widget
Label(id) == [labelOf |-> id]
NoLabel == ""

\* viewSelection.getSelectedElement(): null unless the selection has one
\* range that holds exactly one element.
ViewSelectionSelectedElement(d, ranges) ==
    IF Len(ranges) # 1 THEN NoViewNode
    ELSE ToViewElement(SelectedElement(d, SelectionOfRange(ranges[1])))

\* element.getAncestors() of a view node
RECURSIVE ViewAncestors(_, _)
ViewAncestors(d, v) ==
    IF ViewParent(d, v) = NoViewNode THEN {}
    ELSE {ViewParent(d, v)} \cup ViewAncestors(d, ViewParent(d, v))

\* A variant of isChild that holds for no element.
IsChildOfNothing(d, element, parent) == FALSE

\* isChild( element, parent )
IsChild(d, element, parent) ==
    IF parent = NoViewNode THEN FALSE ELSE parent \in ViewAncestors(d, element)

\* A variant of _clearPreviouslySelectedWidgets that empties the set and
\* leaves the class on the elements.
ForgetPreviouslySelectedWidgets(previous, classes) ==
    [previouslySelected |-> {}, selectedClass |-> classes]

\* _clearPreviouslySelectedWidgets( writer )
ClearPreviouslySelectedWidgets(previous, classes) ==
    [previouslySelected |-> {}, selectedClass |-> classes \ previous]

\* `for ( const value of range )`: the elements the walker of a view range
\* enters, in document order: those that start inside the range.  (The text
\* nodes and the elements without a model counterpart that the walker also
\* returns are not widgets.)
RECURSIVE ItemsFrom(_, _, _)
ItemsFrom(d, i, end) ==
    IF i > end THEN <<>>
    ELSE IF d[i].k = "open" THEN <<ViewElement(d[i].id)>> \o ItemsFrom(d, i + 1, end)
    ELSE ItemsFrom(d, i + 1, end)

RangeItems(d, range) == ItemsFrom(d, range.start + 1, range.end)

\* A variant of the loop body that never makes the selection fake.
MarkNodeWithoutFake(d, st, node, selectedElement) ==
    IF IsWidget(d, node) /\ ~IsChild(d, node, st.lastMarked)
    THEN [st EXCEPT !.selectedClass = @ \cup {node},
                    !.previouslySelected = @ \cup {node},
                    !.lastMarked = node]
    ELSE st

\* The body of the inner loop for one node.
MarkNode(d, st, node, selectedElement) ==
    IF IsWidget(d, node) /\ ~IsChild(d, node, st.lastMarked)
    THEN [st EXCEPT !.selectedClass = @ \cup {node},
                    !.previouslySelected = @ \cup {node},
                    !.lastMarked = node,
                    !.isFake = IF node = selectedElement THEN TRUE ELSE @,
                    !.label = IF node = selectedElement THEN Label(node.id) ELSE @]
    ELSE st

\* `for ( const value of range )` from item i on
RECURSIVE MarkItems(_, _, _, _, _)
MarkItems(d, st, items, i, selectedElement) ==
    IF i > Len(items) THEN st
    ELSE MarkItems(d, MarkNode(d, st, items[i], selectedElement), items, i + 1,
                   selectedElement)

\* `for ( const range of viewSelection.getRanges() )` from range i on
RECURSIVE MarkRanges(_, _, _, _, _)
MarkRanges(d, st, ranges, i, selectedElement) ==
    IF i > Len(ranges) THEN st
    ELSE MarkRanges(d, MarkItems(d, st, RangeItems(d, ranges[i]), 1, selectedElement),
                    ranges, i + 1, selectedElement)

\* The listener as a whole, on the view selection with the given ranges.
SelectionConverter(d, ranges, previous, classes) ==
    LET cleared == ClearPreviouslySelectedWidgets(previous, classes)
        start == [selectedClass |-> cleared.selectedClass,
                  previouslySelected |-> cleared.previouslySelected,
                  lastMarked |-> NoViewNode,
                  isFake |-> FALSE,
                  label |-> NoLabel]
    IN  MarkRanges(d, start, ranges, 1, ViewSelectionSelectedElement(d, ranges))

\* The 'selection' event of the downcast dispatcher: the engine's converters
\* set the view selection to the given ranges (not fake), then the listener
\* of the plugin runs.
ConvertSelection(ranges) ==
    LET r == SelectionConverter(doc, ranges, previouslySelected, selectedClass) IN
    /\ previouslySelected' = r.previouslySelected
    /\ selectedClass' = r.selectedClass
    /\ viewSelection' = [ranges |-> ranges, isFake |-> r.isFake, label |-> r.label]
    /\ UNCHANGED <<toolbarVars, widgetVars, highlightVars, utilsVars>>

\* range.isIntersecting( other )
IsIntersecting(a, b) == a.start < b.end /\ a.end > b.start

\* The ranges a view selection can be given in document d: one range, or
\* several ranges that do not intersect, in any order.
ViewRanges(d) == {r \in [start : 0..Len(d), end : 0..Len(d)] : r.start <= r.end}

ViewSelections(d) ==
    LET spans == {r \in ViewRanges(d) : r.start < r.end}
        several == UNION {[1..n -> spans] : n \in 2..MaxRanges}
    IN  {<<r>> : r \in ViewRanges(d)}
            \cup {rs \in several :
                     \A i, j \in 1..Len(rs) : i # j => ~IsIntersecting(rs[i], rs[j])}

\* The documents the converter is exercised with.
ConversionDocuments == {d \in InitialDocuments : Len(d) <= MaxViewLength}

\* Widget.init() on an editor that holds one of the documents, before the
\* first conversion of the selection.
InitConversion ==
    /\ ToolbarIdle
    /\ doc \in ConversionDocuments
    /\ sel = [anchor |-> 0, focus |-> 0]
    /\ created = 0
    /\ isReadOnly = FALSE
    /\ ev = NoEvent
    /\ ConversionIdle
    /\ HighlightIdle
    /\ UtilsIdle

NextConversion == \E ranges \in ViewSelections(doc) : ConvertSelection(ranges)

SpecConversion == InitConversion /\ [][NextConversion]_vars

---------------------------------------------------------------------------
\* Highlight handling (setHighlightHandling of utils.js): the element keeps
\* the descriptors added to it, the winner first, and calls the add- and the
\* remove-callback when the winner changes.

MaxHighlights == 3      \* descriptor ids are 1..MaxHighlights
MaxPriority == 3        \* priorities are 1..MaxPriority

HighlightIds == 1..MaxHighlights
Priorities == 1..MaxPriority
ClassLists == {"highlight a", "highlight b"}

Descriptors == [id : HighlightIds, priority : Priorities, classes : ClassLists]

\* The winner of a collection of descriptors.
Top(descriptors) == IF descriptors = <<>> THEN NoDescriptor ELSE descriptors[1]

\* The ids of the descriptors present.
PresentIds(descriptors) == {descriptors[i].id : i \in 1..Len(descriptors)}

\* A variant of the tie in which the descriptor added never goes ahead.
StaysBehindTies(present, added, tieWins) == FALSE

\* Whether the descriptor added goes ahead of a present one of its own
\* priority.  With the class list "highlight a" present and "highlight b"
\* added it does (the add-callback is made for the second descriptor); the
\* other ties go either way.
TiesIntoWinner(present, added, tieWins) ==
    IF present.classes = "highlight a" /\ added.classes = "highlight b" THEN TRUE
    ELSE tieWins

\* A variant of the insertion that makes every new descriptor the winner.
InsertDescriptorFirst(descriptors, descriptor, tieWins) == <<descriptor>> \o descriptors

\* The collection with a descriptor stored: behind every descriptor of
\* higher priority, and before or behind the ones of its own priority (the
\* new one ties into the winner, or the earlier ones stay ahead).
RECURSIVE InsertDescriptor(_, _, _)
InsertDescriptor(descriptors, descriptor, tieWins) ==
    IF descriptors = <<>> THEN <<descriptor>>
    ELSE IF \/ Head(descriptors).priority > descriptor.priority
            \/ /\ Head(descriptors).priority = descriptor.priority
               /\ ~TiesIntoWinner(Head(descriptors), descriptor, tieWins)
         THEN <<Head(descriptors)>> \o InsertDescriptor(Tail(descriptors), descriptor, tieWins)
         ELSE <<descriptor>> \o descriptors

\* A variant of the eviction that takes the winner out whatever the id is.
RemoveWinner(descriptors, id) == IF descriptors = <<>> THEN <<>> ELSE Tail(descriptors)

\* The collection with the descriptor of the given id evicted.
RECURSIVE RemoveDescriptor(_, _)
RemoveDescriptor(descriptors, id) ==
    IF descriptors = <<>> THEN <<>>
    ELSE IF Head(descriptors).id = id THEN RemoveDescriptor(Tail(descriptors), id)
    ELSE <<Head(descriptors)>> \o RemoveDescriptor(Tail(descriptors), id)

\* A variant of the callbacks that applies the new winner without tearing
\* the old visual down.
TopChangeCallsAddOnly(oldTop, newTop) ==
    IF oldTop = newTop THEN <<>>
    ELSE IF newTop # NoDescriptor THEN <<[callback |-> "add", descriptor |-> newTop]>>
    ELSE <<[callback |-> "remove", descriptor |-> oldTop]>>

\* The callbacks made when the winner changes: the old visual is torn down,
\* then the new one applied.
TopChangeCalls(oldTop, newTop) ==
    IF oldTop = newTop THEN <<>>
    ELSE (IF oldTop # NoDescriptor
          THEN <<[callback |-> "remove", descriptor |-> oldTop]>> ELSE <<>>)
            \o (IF newTop # NoDescriptor
                THEN <<[callback |-> "add", descriptor |-> newTop]>> ELSE <<>>)

\* The visual that is applied after the callbacks of calls, from visual.
RECURSIVE VisualAfter(_, _)
VisualAfter(visual, calls) ==
    IF calls = <<>> THEN visual
    ELSE VisualAfter(IF Head(calls).callback = "add" THEN Head(calls).descriptor
                     ELSE IF Head(calls).descriptor = visual THEN NoDescriptor
                     ELSE visual,
                     Tail(calls))

\* The element's add accessor, called with a descriptor whose id is not
\* present on the element.
AddHighlight(descriptor, tieWins) ==
    LET inserted == InsertDescriptor(highlightStack, descriptor, tieWins)
        calls == TopChangeCalls(Top(highlightStack), Top(inserted))
    IN  /\ descriptor.id \notin PresentIds(highlightStack)
        /\ highlightStack' = inserted
        /\ activeVisual' = VisualAfter(activeVisual, calls)
        /\ hop' = [name |-> "add", descriptor |-> descriptor, id |-> descriptor.id,
                   calls |-> calls, preStack |-> highlightStack,
                   preActive |-> activeVisual]
        /\ UNCHANGED <<toolbarVars, widgetVars, conversionVars, utilsVars>>

\* The element's remove accessor, called with an id.
RemoveHighlight(id) ==
    LET remaining == RemoveDescriptor(highlightStack, id)
        calls == TopChangeCalls(Top(highlightStack), Top(remaining))
    IN  /\ highlightStack' = remaining
        /\ activeVisual' = VisualAfter(activeVisual, calls)
        /\ hop' = [name |-> "remove", descriptor |-> NoDescriptor, id |-> id,
                   calls |-> calls, preStack |-> highlightStack,
                   preActive |-> activeVisual]
        /\ UNCHANGED <<toolbarVars, widgetVars, conversionVars, utilsVars>>

\* setHighlightHandling() on an element: nothing is present, nothing applied.
InitHighlight ==
    /\ ToolbarIdle
    /\ WidgetIdle

NextHighlight ==
    \/ \E descriptor \in Descriptors, tieWins \in BOOLEAN : AddHighlight(descriptor, tieWins)
    \/ \E id \in HighlightIds : RemoveHighlight(id)

SpecHighlight == InitHighlight /\ [][NextHighlight]_vars

---------------------------------------------------------------------------
\* toWidgetEditable() of utils.js: the contenteditable attribute of a nested
\* editable follows the element's isReadOnly, except on Edge.

\* A variant of the attribute's value that does not skip Edge.
ContentEditableOnEveryPlatform(edge, readOnly, current) ==
    IF readOnly THEN "false" ELSE "true"

\* The contenteditable attribute after it is set for the read-only state of
\* the element: on Edge it is left as it is.
ContentEditable(edge, readOnly, current) ==
    IF edge THEN current
    ELSE IF readOnly THEN "false" ELSE "true"

\* toWidgetEditable( editable, writer ): sets the attribute for the
\* element's read-only state and binds it to the later changes.
ToWidgetEditable(e) ==
    /\ ~editables[e].isWidgetEditable
    /\ editables' = [editables EXCEPT
          ![e].isWidgetEditable = TRUE,
          ![e].contenteditable =
              ContentEditable(isEdge, editables[e].isReadOnly, editables[e].contenteditable)]
    /\ uop' = [name |-> "toWidgetEditable", element |-> e]
    /\ UNCHANGED <<isEdge, insertion>>
    /\ UNCHANGED <<toolbarVars, widgetVars, conversionVars, highlightVars>>

\* element.isReadOnly = value: the observable property fires its change
\* event when the value differs, and the listener bound by toWidgetEditable()
\* sets the attribute.
ChangeIsReadOnly(e, value) ==
    /\ value # editables[e].isReadOnly
    /\ editables' = [editables EXCEPT
          ![e].isReadOnly = value,
          ![e].contenteditable =
              IF editables[e].isWidgetEditable
              THEN ContentEditable(isEdge, value, editables[e].contenteditable)
              ELSE editables[e].contenteditable]
    /\ uop' = [name |-> "change:isReadOnly", element |-> e]
    /\ UNCHANGED <<isEdge, insertion>>
    /\ UNCHANGED <<toolbarVars, widgetVars, conversionVars, highlightVars>>

\* The view's editable elements as they are created, on either platform.
InitEditable ==
    /\ ToolbarIdle
    /\ doc = <<>>
    /\ sel = [anchor |-> 0, focus |-> 0]
    /\ created = 0
    /\ isReadOnly = FALSE
    /\ ev = [name |-> "idle"]
    /\ ConversionIdle
    /\ HighlightIdle
    /\ isEdge \in BOOLEAN
    /\ editables \in [EditableIds -> {PlainEditable(readOnly) : readOnly \in BOOLEAN}]
    /\ uop = [name |-> "init", element |-> 0]
    /\ insertion = NoInsertion

NextEditable ==
    \/ \E e \in EditableIds : ToWidgetEditable(e)
    \/ \E e \in EditableIds, value \in BOOLEAN : ChangeIsReadOnly(e, value)

SpecEditable == InitEditable /\ [][NextEditable]_vars

---------------------------------------------------------------------------
\* findOptimalInsertionPosition() of utils.js, on documents of the schema its
\* tests register: paragraph is a block, image an object of the root, span an
\* inline wrapper of a paragraph, and text is allowed in all three and in
\* the root.

MaxInsertionBlocks == 2 \* the document has 1..MaxInsertionBlocks top-level nodes

\* schema.isBlock( element ), by name
IsBlock(name) == name = "paragraph"

\* The nearest block that contains position p, as the index of its start
\* token (0: none).
ParentBlockIndex(d, p) ==
    LET blocks == {i \in Enclosing(d, p) : IsBlock(d[i].name)}
    IN  IF blocks = {} THEN 0 ELSE Maximum(blocks)

\* A variant of the touch that looks at the position's own parent only.
IsNextTo(d, a, b) == Maximum2(a, b) - Minimum2(a, b) <= 1

\* position.isTouching( other ): no text and no whole element lies between
\* the two positions, only ends of elements followed by starts of elements.
IsTouching(d, a, b) ==
    LET lo == Minimum2(a, b)
        hi == Maximum2(a, b)
    IN  \E m \in lo..hi :
            /\ \A i \in (lo + 1)..m : d[i].k = "close"
            /\ \A i \in (m + 1)..hi : d[i].k = "open"

\* The position for the block heuristics: inside an empty block, after a
\* block the focus touches the end of, before the block otherwise; the
\* focus when no block contains the selection.
BlockInsertionPosition(d, s) ==
    LET b == ParentBlockIndex(d, FirstPosition(s))
        positionAfter == CloseIndex(d, b)
    IN  IF b = 0 THEN s.focus
        ELSE IF IsEmpty(d, d[b].id) THEN b
        ELSE IF IsTouching(d, s.focus, positionAfter) THEN positionAfter
        ELSE b - 1

\* A variant that applies the block heuristics before it looks at the
\* selected element.
FindInsertionPositionBlockFirst(d, s) ==
    IF ParentBlockIndex(d, FirstPosition(s)) # 0 THEN BlockInsertionPosition(d, s)
    ELSE IF SelectedElement(d, s) # NoId THEN RangeOn(d, SelectedElement(d, s)).end
    ELSE s.focus

\* findOptimalInsertionPosition( selection, model )
FindOptimalInsertionPosition(d, s) ==
    IF SelectedElement(d, s) # NoId THEN RangeOn(d, SelectedElement(d, s)).end
    ELSE BlockInsertionPosition(d, s)

\* A call of findOptimalInsertionPosition() with the document selection.
ResolveInsertionPosition ==
    /\ insertion' = [called |-> TRUE, sel |-> sel,
                     position |-> FindOptimalInsertionPosition(doc, sel)]
    /\ UNCHANGED <<isEdge, editables, uop>>
    /\ UNCHANGED <<toolbarVars, widgetVars, conversionVars, highlightVars>>

\* The top-level nodes a document is built from; node b uses the ids
\* 10 * b + 1, 10 * b + 2, ...
InsertionShapes == {"p", "pt", "pts", "ptss", "pst", "image", "text"}

InsertionBlock(shape, b) ==
    LET e1 == 10 * b + 1
        e2 == 10 * b + 2
        e3 == 10 * b + 3
    IN  CASE shape = "p" ->     \* <paragraph></paragraph>
                <<Open("paragraph", e1), Close("paragraph", e1)>>
          [] shape = "pt" ->    \* <paragraph>xx</paragraph>
                <<Open("paragraph", e1), Char, Char, Close("paragraph", e1)>>
          [] shape = "pts" ->   \* <paragraph>x<span>y</span></paragraph>
                <<Open("paragraph", e1), Char, Open("span", e2), Char,
                  Close("span", e2), Close("paragraph", e1)>>
          [] shape = "ptss" ->  \* <paragraph>x<span><span>y</span></span></paragraph>
                <<Open("paragraph", e1), Char, Open("span", e2), Open("span", e3),
                  Char, Close("span", e3), Close("span", e2), Close("paragraph", e1)>>
          [] shape = "pst" ->   \* <paragraph><span>y</span>x</paragraph>
                <<Open("paragraph", e1), Open("span", e2), Char, Close("span", e2),
                  Char, Close("paragraph", e1)>>
          [] shape = "image" -> \* <image></image>
                <<Open("image", e1), Close("image", e1)>>
          [] shape = "text" ->  \* xx, text of the root
                <<Char, Char>>

RECURSIVE InsertionBlocks(_, _)
InsertionBlocks(f, n) ==
    IF n = 0 THEN <<>> ELSE InsertionBlocks(f, n - 1) \o InsertionBlock(f[n], n)

InsertionDocuments ==
    UNION {{InsertionBlocks(f, n) : f \in [1..n -> InsertionShapes]} :
              n \in 1..MaxInsertionBlocks}

\* The selections the function is given in document d: a caret anywhere
\* outside an image, a range over one element, or a range between two
\* positions of the same parent, made forward or backward.
InsertionSelections(d) ==
    LET positions == {p \in 0..Len(d) : ParentName(d, p) # "image"}
        carets == {[anchor |-> p, focus |-> p] : p \in positions}
        elements == {SelectionOfRange(RangeOn(d, d[i].id)) :
                        i \in {j \in 1..Len(d) : d[j].k = "open"}}
        ranges == {s \in [anchor : positions, focus : positions] :
                      /\ s.anchor # s.focus
                      /\ ParentIndex(d, s.anchor) = ParentIndex(d, s.focus)}
    IN  carets \cup elements \cup ranges

InitInsertion ==
    /\ ToolbarIdle
    /\ doc \in InsertionDocuments
    /\ sel \in InsertionSelections(doc)
    /\ created = 0
    /\ isReadOnly = FALSE
    /\ ev = NoEvent
    /\ ConversionIdle
    /\ HighlightIdle
    /\ UtilsIdle

NextInsertion ==
    \/ \E s \in InsertionSelections(doc) : SelectionChange(s)
    \/ ResolveInsertionPosition

SpecInsertion == InitInsertion /\ [][NextInsertion]_vars

---------------------------------------------------------------------------
\* Properties of the mousedown handler.

\* The view nodes from v up to the view root, v first.
RECURSIVE ViewPath(_, _)
ViewPath(d, v) ==
    IF v = NoViewNode THEN <<>> ELSE <<v>> \o ViewPath(d, ViewParent(d, v))

\* The place of the first widget on the way up from v (0: there is none),
\* and of the first editable element that is not the root.
FirstWidgetAt(d, v) ==
    LET path == ViewPath(d, v)
        at == {i \in 1..Len(path) : IsWidget(d, path[i])}
    IN  IF at = {} THEN 0 ELSE CHOOSE i \in at : \A j \in at : i <= j

FirstNestedEditableAt(d, v) ==
    LET path == ViewPath(d, v)
        at == {i \in 1..Len(path) :
                  IsEditableElement(d, path[i]) /\ ~IsRootElement(path[i])}
    IN  IF at = {} THEN 0 ELSE CHOOSE i \in at : \A j \in at : i <= j

\* The press hits a widget: the target or an ancestor is a widget and no
\* nested editable lies between the target and the nearest one.
HitsWidget(d, v) ==
    /\ FirstWidgetAt(d, v) # 0
    /\ FirstNestedEditableAt(d, v) = 0
          \/ FirstNestedEditableAt(d, v) > FirstWidgetAt(d, v)

NearestWidget(d, v) == ViewPath(d, v)[FirstWidgetAt(d, v)]

MousedownHandled == ev.name = "mousedown"

\* C5: a pointer press on a widget, or on a node whose nearest widget
\* ancestor is reached before any nested editable, prevents the default,
\* focuses the view exactly when the document was not focused, and leaves the
\* model selection spanning exactly the model element of the nearest widget,
\* which is then the selection's selected element.
C5_MousedownSelectsWidget ==
    (MousedownHandled /\ HitsWidget(ev.preDoc, ev.target)) =>
        LET modelElement == ToModelElement(NearestWidget(ev.preDoc, ev.target)) IN
        /\ ev.defaultPrevented
        /\ ev.focusCalled <=> ~ev.isViewFocused
        /\ doc = ev.preDoc
        /\ sel = SelectionOfRange(RangeOn(doc, modelElement))
        /\ SelectedElement(doc, sel) = modelElement

\* The press lands on the inner element of an inline widget that sits in the
\* nested editable of a block widget, while the document is not focused.
C5_Witness ==
    /\ MousedownHandled
    /\ HitsWidget(ev.preDoc, ev.target)
    /\ ev.target.part = "inner"
    /\ NameOf(doc, ev.target.id) = "inlineWidget"
    /\ NameOf(doc, ElementParentId(doc, ev.target.id)) = "nested"
    /\ ~ev.isViewFocused
    /\ ev.focusCalled
    /\ sel # ev.preSel
    /\ SelectedElement(doc, sel) = ev.target.id

\* C6: a pointer press is ignored when a nested editable is reached before
\* any widget on the way up from the target, or when neither the target nor
\* an ancestor is a widget: the selection is as it was, the default is not
\* prevented and the view is not focused.
C6_MousedownIgnored ==
    (MousedownHandled /\ ~HitsWidget(ev.preDoc, ev.target)) =>
        /\ sel = ev.preSel
        /\ doc = ev.preDoc
        /\ ~ev.defaultPrevented
        /\ ~ev.focusCalled
        /\ ~ev.wasHandled

\* The press lands on the text inside the nested editable of a widget while
\* another element is selected and the document is not focused.
C6_Witness ==
    /\ MousedownHandled
    /\ ev.target.part = "attribute"
    /\ NameOf(doc, ev.target.id) = "nested"
    /\ FirstWidgetAt(doc, ev.target) # 0
    /\ ~ev.isViewFocused
    /\ SelectedElement(doc, sel) # NoId
    /\ SelectedElement(doc, sel) # ElementParentId(doc, ev.target.id)

---------------------------------------------------------------------------
\* Properties of the keydown handler.

\* The event was consumed: its default prevented and its propagation stopped.
Consumed == ev.defaultPrevented /\ ev.stopped

ArrowKeydown == ev.name = "keydown" /\ IsArrowKeyCode(ev.key.keyCode)

\* The direction of an arrow key: right and down are forward.
KeyIsForward == ev.key.keyCode \in {ArrowRight, ArrowDown}

\* An object was the selected element when the key went down.
ObjectWasSelected ==
    /\ SelectedElement(ev.preDoc, ev.preSel) # NoId
    /\ IsObject(NameOf(ev.preDoc, SelectedElement(ev.preDoc, ev.preSel)))

\* C7: an arrow key pressed while an object is the selected element is always
\* handled and consumed; the selection becomes the schema's nearest selection
\* range in the key's direction, searched from the selection's last position
\* for a forward key and from its first position for a backward key, and
\* stays as it was when there is no such range.
C7_ArrowLeavesSelectedObject ==
    (ArrowKeydown /\ ObjectWasSelected) =>
        LET position == IF KeyIsForward THEN LastPosition(ev.preSel)
                                        ELSE FirstPosition(ev.preSel)
            newRange == GetNearestSelectionRange(ev.preDoc, position, KeyIsForward)
        IN  /\ ev.wasHandled
            /\ Consumed
            /\ doc = ev.preDoc
            /\ newRange # NoRange => sel = SelectionOfRange(newRange)
            /\ newRange = NoRange => sel = ev.preSel

\* A forward arrow with a block widget selected moved the selection into the
\* paragraph behind it.
C7_Witness ==
    /\ ArrowKeydown
    /\ ObjectWasSelected
    /\ Consumed
    /\ KeyIsForward
    /\ NameOf(doc, SelectedElement(ev.preDoc, ev.preSel)) = "widget"
    /\ IsCollapsed(sel)
    /\ sel.focus > LastPosition(ev.preSel)
    /\ ParentName(doc, sel.focus) = "paragraph"

\* The objects next to position p in a direction: the node right behind p
\* when going forward, right before p when going backward.
ObjectRightAt(d, p, forward) ==
    LET node == IF forward THEN NodeAfter(d, p) ELSE NodeBefore(d, p) IN
    IF node # NoNode /\ IsObject(node.name) THEN node.id ELSE NoId

\* Element id lies in the direction of the key as seen from position p.
LiesInDirection(d, id, p, forward) ==
    IF forward THEN RangeOn(d, id).start >= p ELSE RangeOn(d, id).end <= p

\* C8: an arrow key pressed while no object is selected.  With a collapsed
\* selection and an object right next to it in the key's direction, the
\* selection becomes that whole object and the event is consumed; a consumed
\* event has selected an object that lies in the key's direction; in every
\* other case the event is not consumed and the selection is as it was.
C8_ArrowNextToObject ==
    (ArrowKeydown /\ ~ObjectWasSelected) =>
        LET caret == ev.preSel.focus
            next == ObjectRightAt(ev.preDoc, caret, KeyIsForward)
        IN  /\ doc = ev.preDoc
            /\ Consumed <=> ev.wasHandled
            /\ ~IsCollapsed(ev.preSel) => (~Consumed /\ sel = ev.preSel)
            /\ (IsCollapsed(ev.preSel) /\ next # NoId) =>
                  (Consumed /\ sel = SelectionOfRange(RangeOn(doc, next)))
            /\ Consumed =>
                  /\ IsCollapsed(ev.preSel)
                  /\ SelectedElement(doc, sel) # NoId
                  /\ IsObject(NameOf(doc, SelectedElement(doc, sel)))
                  /\ sel = SelectionOfRange(RangeOn(doc, SelectedElement(doc, sel)))
                  /\ LiesInDirection(doc, SelectedElement(doc, sel), caret, KeyIsForward)
            /\ ~Consumed => sel = ev.preSel

SelectAllKeydown == ev.name = "keydown" /\ IsSelectAllKeyCode(ev.key)

\* One widget was the selected element of the view when the key went down.
WidgetWasSelected ==
    /\ SelectedElement(ev.preDoc, ev.preSel) # NoId
    /\ IsWidget(ev.preDoc, ToViewElement(SelectedElement(ev.preDoc, ev.preSel)))

\* C9: the select-all combination.  The step for the limit element the
\* selection is inside runs first: it reports not-handled when that element
\* is the root, and otherwise selects all content of the limit element.  The
\* step for a single selected widget runs only when the first reported
\* not-handled, and selects all content of the widget's parent.  The event is
\* consumed exactly when one of the steps succeeded, and the selection is as
\* it was when neither did.
C9_SelectAllSteps ==
    SelectAllKeydown =>
        LET limitElement == GetLimitElement(ev.preDoc, ev.preSel)
            widget == SelectedElement(ev.preDoc, ev.preSel)
            second == ev.contentCalled /\ WidgetWasSelected
        IN  /\ doc = ev.preDoc
            /\ ev.nestedResult <=> limitElement # RootId
            /\ ev.nestedResult =>
                  sel = SelectionOfRange(RangeIn(doc, limitElement))
            /\ ev.contentCalled <=> ~ev.nestedResult
            /\ second =>
                  sel = SelectionOfRange(RangeIn(doc, ElementParentId(doc, widget)))
            /\ Consumed <=> (ev.nestedResult \/ second)
            /\ ev.wasHandled <=> Consumed
            /\ ~(ev.nestedResult \/ second) => sel = ev.preSel

\* The first step reported not-handled and the second selected all content
\* of the root, which holds the selected widget and another block.
C9_Witness ==
    /\ SelectAllKeydown
    /\ ~ev.nestedResult
    /\ ev.contentCalled
    /\ WidgetWasSelected
    /\ Consumed
    /\ ElementParentId(doc, SelectedElement(ev.preDoc, ev.preSel)) = RootId
    /\ sel # ev.preSel
    /\ sel = [anchor |-> 0, focus |-> Len(doc)]

\* C10: select-all pressed with the caret inside a nested editable selects
\* all content of that editable and reports handled; select-all pressed when
\* the limit element of the selection is already the root makes the step for
\* nested editables report not-handled and change nothing, so that without a
\* selected widget the event is left to the other listeners.
C10_SelectAllInNestedEditable ==
    SelectAllKeydown =>
        LET limitElement == GetLimitElement(ev.preDoc, ev.preSel) IN
        /\ (IsCollapsed(ev.preSel) /\ ParentName(ev.preDoc, ev.preSel.focus) = "nested") =>
              /\ ev.wasHandled
              /\ ev.nestedResult
              /\ sel = SelectionOfRange(RangeIn(doc, ParentId(ev.preDoc, ev.preSel.focus)))
        /\ limitElement = RootId =>
              /\ ~ev.nestedResult
              /\ ~WidgetWasSelected => (~ev.wasHandled /\ ~Consumed /\ sel = ev.preSel)

\* The caret was inside a nested editable and the press selected the text
\* and the inline widget the editable holds.
C10_Witness ==
    /\ SelectAllKeydown
    /\ IsCollapsed(ev.preSel)
    /\ ParentName(ev.preDoc, ev.preSel.focus) = "nested"
    /\ ev.wasHandled
    /\ ~IsCollapsed(sel)
    /\ sel = SelectionOfRange(RangeIn(doc, ParentId(doc, ev.preSel.focus)))
    /\ sel.focus - sel.anchor = 3

EnterKeydown == ev.name = "keydown" /\ ev.key.keyCode = Enter

\* The document without the tokens of element id.
RECURSIVE WithoutElement(_, _)
WithoutElement(d, id) ==
    IF d = <<>> THEN <<>>
    ELSE IF Head(d).k # "text" /\ Head(d).id = id THEN WithoutElement(Tail(d), id)
    ELSE <<Head(d)>> \o WithoutElement(Tail(d), id)

\* C11: Enter (Shift+Enter) with an object selected inserts exactly one new
\* empty paragraph as the sibling right after (right before) the object,
\* moves the selection inside the new paragraph, keeps the object in the
\* document and consumes the event; with no object selected the handler
\* reports not-handled and changes neither the document nor the selection.
C11_EnterInsertsParagraph ==
    EnterKeydown =>
        IF ObjectWasSelected
        THEN LET objectElement == SelectedElement(ev.preDoc, ev.preSel)
                 new == ElementIds(doc) \ ElementIds(ev.preDoc)
             IN  /\ Consumed
                 /\ ev.wasHandled
                 /\ Cardinality(new) = 1
                 /\ ElementIds(ev.preDoc) \subseteq ElementIds(doc)
                 /\ \A paragraph \in new :
                       /\ NameOf(doc, paragraph) = "paragraph"
                       /\ IsEmpty(doc, paragraph)
                       /\ WithoutElement(doc, paragraph) = ev.preDoc
                       /\ ElementParentId(doc, paragraph)
                             = ElementParentId(doc, objectElement)
                       /\ IF ev.key.shiftKey
                          THEN RangeOn(doc, paragraph).end
                                  = RangeOn(doc, objectElement).start
                          ELSE RangeOn(doc, paragraph).start
                                  = RangeOn(doc, objectElement).end
                       /\ IsCollapsed(sel)
                       /\ ParentId(doc, sel.focus) = paragraph
                 /\ IsObject(NameOf(doc, objectElement))
        ELSE /\ ~Consumed
             /\ ~ev.wasHandled
             /\ doc = ev.preDoc
             /\ sel = ev.preSel

\* Shift+Enter with a block widget selected that is not the first block: the
\* new paragraph sits between the block before the widget and the widget.
C11_Witness ==
    /\ EnterKeydown
    /\ ev.key.shiftKey
    /\ ObjectWasSelected
    /\ Consumed
    /\ NameOf(doc, SelectedElement(ev.preDoc, ev.preSel)) = "widget"
    /\ FirstPosition(ev.preSel) > 0
    /\ Len(doc) = Len(ev.preDoc) + 2
    /\ sel.focus = FirstPosition(ev.preSel) + 1
    /\ ParentName(doc, sel.focus) = "paragraph"

---------------------------------------------------------------------------
\* Properties of the delete handler.

DeleteHandled == ev.name = "delete"

DeleteIsForward == ev.direction = "forward"

\* The object the schema finds next to the caret in the direction of the
\* deletion: the probe moved, and what it moved over is an object.
AdjacentObject(d, caret, forward) ==
    LET focus == ModifySelection(d, caret, forward)
        node == IF forward THEN NodeBefore(d, focus) ELSE NodeAfter(d, focus)
    IN  IF focus # caret /\ node # NoNode /\ IsObject(node.name)
        THEN node.id
        ELSE NoId

\* C12: a delete event in a read-only editor, or with a selection that is
\* not collapsed, is ignored: the document and the selection are as they
\* were, no change block ran, the event is neither default-prevented nor
\* stopped, and the handler returned without reporting handled.
C12_DeleteIgnored ==
    (DeleteHandled /\ (isReadOnly \/ ~IsCollapsed(ev.preSel))) =>
        /\ doc = ev.preDoc
        /\ sel = ev.preSel
        /\ ev.changeBlocks = <<>>
        /\ ~ev.defaultPrevented
        /\ ~ev.stopped
        /\ ~ev.wasHandled

\* A forward delete in a read-only editor with the caret in an empty
\* paragraph right before a widget.
C12_Witness ==
    /\ DeleteHandled
    /\ isReadOnly
    /\ DeleteIsForward
    /\ IsCollapsed(ev.preSel)
    /\ IsEmpty(doc, ParentId(doc, ev.preSel.anchor))
    /\ AdjacentObject(ev.preDoc, ev.preSel.focus, TRUE) # NoId
    /\ ~ev.defaultPrevented

\* The elements around position p, p's parent included, that hold nothing
\* but the chain of elements around p: no text, and no element that is not
\* itself around p.
HollowAncestors(d, p) ==
    LET around == {d[i].id : i \in Enclosing(d, p)}
    IN  {id \in around :
            \A i \in OpenIndex(d, id)..CloseIndex(d, OpenIndex(d, id)) :
                d[i].k # "text" /\ d[i].id \in around}

\* The document without the tokens of the elements in ids.
RECURSIVE WithoutElements(_, _)
WithoutElements(d, ids) ==
    IF d = <<>> THEN <<>>
    ELSE IF Head(d).k # "text" /\ Head(d).id \in ids THEN WithoutElements(Tail(d), ids)
    ELSE <<Head(d)>> \o WithoutElements(Tail(d), ids)

DeleteNextToObject ==
    /\ DeleteHandled
    /\ ~isReadOnly
    /\ IsCollapsed(ev.preSel)
    /\ AdjacentObject(ev.preDoc, ev.preSel.focus, DeleteIsForward) # NoId

\* C13: a delete in a writable editor with a collapsed selection and an
\* object next to it in the direction of the deletion removes exactly the
\* ancestors of the anchor that are empty or hold nothing but such ancestors
\* (so the walk stops at the first ancestor with other content, and an anchor
\* parent with content stays), leaves the selection exactly over the object
\* and consumes the event.
C13_DeleteSelectsObject ==
    DeleteNextToObject =>
        LET objectElement == AdjacentObject(ev.preDoc, ev.preSel.focus, DeleteIsForward)
            removed == HollowAncestors(ev.preDoc, ev.preSel.anchor)
        IN  /\ doc = WithoutElements(ev.preDoc, removed)
            /\ ElementIds(doc) = ElementIds(ev.preDoc) \ removed
            /\ ~IsEmpty(ev.preDoc, ParentId(ev.preDoc, ev.preSel.anchor)) => doc = ev.preDoc
            /\ sel = SelectionOfRange(RangeOn(doc, objectElement))
            /\ SelectedElement(doc, sel) = objectElement
            /\ ev.wasHandled
            /\ Consumed

\* A forward delete with the caret in the empty paragraph of a block quote
\* that holds nothing else, before a widget: the paragraph and the block
\* quote are both removed.
C13_Witness ==
    /\ DeleteNextToObject
    /\ DeleteIsForward
    /\ NameOf(ev.preDoc, ParentId(ev.preDoc, ev.preSel.anchor)) = "paragraph"
    /\ Cardinality(HollowAncestors(ev.preDoc, ev.preSel.anchor)) = 2
    /\ Len(doc) = Len(ev.preDoc) - 4
    /\ SelectedElement(doc, sel) # NoId
    /\ Consumed

\* C14: the removals of the delete handler and the selection of the object
\* happen in one outermost change block: the listeners of the model are
\* shown one state only, the final one, so none of them sees a document the
\* ancestors were removed from with a selection that is not yet over the
\* object, and the operation is one step to undo.
C14_DeleteIsOneChange ==
    (DeleteHandled /\ ev.wasHandled) =>
        /\ Len(ev.changeBlocks) = 1
        /\ \A i \in 1..Len(ev.changeBlocks) :
              /\ ev.changeBlocks[i].doc = doc
              /\ ev.changeBlocks[i].sel = sel
              /\ SelectedElement(ev.changeBlocks[i].doc, ev.changeBlocks[i].sel) # NoId

\* A delete that removed an empty ancestor and selected the object.
C14_Witness ==
    /\ DeleteHandled
    /\ ev.wasHandled
    /\ doc # ev.preDoc
    /\ Len(ev.changeBlocks) = 1
    /\ SelectedElement(doc, sel) # NoId
    /\ ~DeleteIsForward

---------------------------------------------------------------------------
\* Properties of the selection converter.

\* The widgets that start inside one of the ranges of the view selection.
VisitedWidgets ==
    {v \in ViewNodes(doc) :
        /\ IsWidget(doc, v)
        /\ \E i \in 1..Len(viewSelection.ranges) :
              /\ viewSelection.ranges[i].start < OpenIndex(doc, v.id)
              /\ OpenIndex(doc, v.id) <= viewSelection.ranges[i].end}

\* C15: after every pass the set of previously selected widgets is exactly
\* the set of view elements that carry the class; every member is a widget,
\* and one that the current pass walked over: no element marked by an
\* earlier pass keeps the class unless the current pass marked it again.
C15_SelectedSetIsMarkedSet ==
    /\ previouslySelected = selectedClass
    /\ \A v \in previouslySelected : IsWidget(doc, v)
    /\ selectedClass \subseteq VisitedWidgets

\* A pass has marked the inline widget of a document that holds two
\* widgets, and no other element carries the class.
C15_Witness ==
    /\ Cardinality(selectedClass) = 1
    /\ previouslySelected = selectedClass
    /\ Len(viewSelection.ranges) = 1
    /\ \A v \in selectedClass : NameOf(doc, v.id) = "inlineWidget"
    /\ Cardinality(ObjectIds(doc)) = 2

\* The ranges of the view selection follow each other in document order.
InDocumentOrder(ranges) ==
    \A i, j \in 1..Len(ranges) : i < j => ranges[i].end <= ranges[j].start

\* C16: after a pass over a view selection whose ranges are walked in
\* document order, no widget that carries the class is a descendant of
\* another widget that carries it, and the widgets that carry it are exactly
\* the walked widgets that are inside no other walked widget.
C16_NoMarkedDescendant ==
    InDocumentOrder(viewSelection.ranges) =>
        /\ \A v, w \in selectedClass : w \notin ViewAncestors(doc, v)
        /\ selectedClass =
              {v \in VisitedWidgets : ViewAncestors(doc, v) \cap VisitedWidgets = {}}

\* The pass walked over a widget and over the inline widget in its nested
\* editable, and marked the outer one only.
C16_Witness ==
    /\ InDocumentOrder(viewSelection.ranges)
    /\ Cardinality(VisitedWidgets) = 2
    /\ Cardinality(selectedClass) = 1
    /\ \E v \in VisitedWidgets : VisitedWidgets \cap ViewAncestors(doc, v) # {}
    /\ Len(viewSelection.ranges) = 2

\* C17: the pass makes the view selection fake, with the ranges it had and
\* the label of the widget, when the single selected element of the view
\* selection is a widget (which the pass marks); when the selection has no
\* single selected element, or that element is no widget, the pass does not
\* make the selection fake.
C17_FakeSelectionOverWidget ==
    LET selectedElement == ViewSelectionSelectedElement(doc, viewSelection.ranges) IN
    IF selectedElement # NoViewNode /\ IsWidget(doc, selectedElement)
    THEN /\ selectedElement \in selectedClass
         /\ viewSelection.isFake
         /\ viewSelection.label = Label(selectedElement.id)
    ELSE /\ ~viewSelection.isFake
         /\ viewSelection.label = NoLabel

\* The view selection is over the inline widget in the nested editable of a
\* widget, and is fake.
C17_Witness ==
    /\ viewSelection.isFake
    /\ Len(viewSelection.ranges) = 1
    /\ \E v \in selectedClass :
          /\ v = ViewSelectionSelectedElement(doc, viewSelection.ranges)
          /\ NameOf(doc, v.id) = "inlineWidget"
          /\ NameOf(doc, ElementParentId(doc, v.id)) = "nested"

---------------------------------------------------------------------------
\* Properties of the highlight handling.

\* The greatest priority among the descriptors present (0 when none is).
MaxPresentPriority(descriptors) ==
    IF descriptors = <<>> THEN 0
    ELSE CHOOSE p \in {descriptors[i].priority : i \in 1..Len(descriptors)} :
            \A i \in 1..Len(descriptors) : descriptors[i].priority <= p

\* The descriptors present, as a set.
Present(descriptors) == {descriptors[i] : i \in 1..Len(descriptors)}

\* C18: after any sequence of adds and removes the descriptor whose visual
\* is applied is one of the descriptors present and has the greatest
\* priority among them, and no visual is applied when none is present; the
\* add of a descriptor of lower priority than the active one calls neither
\* callback.
C18_ActiveHasHighestPriority ==
    /\ highlightStack = <<>> => activeVisual = NoDescriptor
    /\ highlightStack # <<>> =>
          /\ activeVisual \in Present(highlightStack)
          /\ activeVisual.priority = MaxPresentPriority(highlightStack)
    /\ ( /\ hop.name = "add"
         /\ hop.preActive # NoDescriptor
         /\ hop.descriptor.priority < hop.preActive.priority )
       => /\ hop.calls = <<>>
          /\ activeVisual = hop.preActive

\* Three descriptors are present and the last one added, of lower priority
\* than the active one, left the active one applied.
C18_Witness ==
    /\ Len(highlightStack) = 3
    /\ hop.name = "add"
    /\ hop.preActive # NoDescriptor
    /\ hop.descriptor.priority < hop.preActive.priority
    /\ activeVisual = hop.preActive

\* C19: the add of a descriptor of higher priority than the active one
\* calls the remove-callback for the active one and then the add-callback
\* once, for the new descriptor, which is the active one afterwards.
C19_HigherPriorityTakesOver ==
    ( /\ hop.name = "add"
      /\ hop.preActive # NoDescriptor
      /\ hop.descriptor.priority > hop.preActive.priority )
    => /\ hop.calls = << [callback |-> "remove", descriptor |-> hop.preActive],
                         [callback |-> "add", descriptor |-> hop.descriptor] >>
       /\ activeVisual = hop.descriptor

\* A descriptor of priority 3 was added over an active one of priority 2
\* with a descriptor of priority 1 present as well.
C19_Witness ==
    /\ hop.name = "add"
    /\ Len(hop.preStack) = 2
    /\ hop.preActive.priority = 2
    /\ hop.descriptor.priority = 3
    /\ activeVisual = hop.descriptor

\* C20: the remove of the active descriptor calls the remove-callback once,
\* for it, and then, when a descriptor remains, the add-callback once, for a
\* remaining descriptor of the greatest priority; the remove of a descriptor
\* that is present and not active calls no callback and leaves the active
\* one applied.
C20_RemoveReappliesNextHighest ==
    hop.name = "remove" /\ hop.id \in PresentIds(hop.preStack) =>
        IF hop.id = hop.preActive.id
        THEN /\ hop.calls # <<>>
             /\ hop.calls[1] = [callback |-> "remove", descriptor |-> hop.preActive]
             /\ IF highlightStack = <<>>
                THEN Len(hop.calls) = 1 /\ activeVisual = NoDescriptor
                ELSE /\ Len(hop.calls) = 2
                     /\ hop.calls[2].callback = "add"
                     /\ hop.calls[2].descriptor \in Present(highlightStack)
                     /\ hop.calls[2].descriptor.priority = MaxPresentPriority(highlightStack)
                     /\ activeVisual = hop.calls[2].descriptor
        ELSE /\ hop.calls = <<>>
             /\ activeVisual = hop.preActive

\* The active descriptor of three was removed and a remaining one applied.
C20_Witness ==
    /\ hop.name = "remove"
    /\ Len(hop.preStack) = 3
    /\ hop.id = hop.preActive.id
    /\ Len(hop.calls) = 2
    /\ Len(highlightStack) = 2
    /\ activeVisual = highlightStack[1]

\* A descriptor that was present and not active was removed.
C20_WitnessNotActive ==
    /\ hop.name = "remove"
    /\ hop.id \in PresentIds(hop.preStack)
    /\ hop.id # hop.preActive.id
    /\ hop.calls = <<>>

\* The last call added a descriptor of the priority of the active one.
TiedAdd ==
    /\ hop.name = "add"
    /\ hop.preActive # NoDescriptor
    /\ hop.descriptor.priority = hop.preActive.priority

---------------------------------------------------------------------------
\* Properties of toWidgetEditable().

\* C22: an element toWidgetEditable() was called on has, after any changes
\* of its isReadOnly, the contenteditable attribute "false" when it is
\* read-only and "true" when it is not, on a platform other than Edge; on
\* Edge no element has the attribute, at the call or after a change.
C22_ContentEditableMirrorsReadOnly ==
    \A e \in EditableIds :
        /\ (~isEdge /\ editables[e].isWidgetEditable) =>
              editables[e].contenteditable =
                  (IF editables[e].isReadOnly THEN "false" ELSE "true")
        /\ isEdge => editables[e].contenteditable = NoAttribute

\* Not on Edge: the read-only state of an editable of the widget was just
\* changed to true, and another one, not read-only, has "true".
C22_Witness ==
    /\ ~isEdge
    /\ uop.name = "change:isReadOnly"
    /\ editables[uop.element].isWidgetEditable
    /\ editables[uop.element].isReadOnly
    /\ editables[uop.element].contenteditable = "false"
    /\ \E e \in EditableIds :
          /\ editables[e].isWidgetEditable
          /\ editables[e].contenteditable = "true"

\* On Edge: the read-only state of an editable of the widget was changed.
C22_WitnessOnEdge ==
    /\ isEdge
    /\ uop.name = "change:isReadOnly"
    /\ editables[uop.element].isWidgetEditable
    /\ editables[uop.element].contenteditable = NoAttribute

---------------------------------------------------------------------------
\* Properties of findOptimalInsertionPosition().

\* The positions right before and right after element id.
PositionBefore(d, id) == (CHOOSE i \in 1..Len(d) : d[i].k = "open" /\ d[i].id = id) - 1
PositionAfter(d, id) == CHOOSE j \in 1..Len(d) : d[j].k = "close" /\ d[j].id = id

\* The elements that contain position p.
Containing(d, p) ==
    {d[i].id : i \in {j \in 1..p : d[j].k = "open" /\ PositionAfter(d, d[j].id) > p}}

\* The innermost paragraph that contains position p (NoId: none does).
InnermostBlock(d, p) ==
    LET blocks == {id \in Containing(d, p) : d[PositionBefore(d, id) + 1].name = "paragraph"}
    IN  IF blocks = {} THEN NoId
        ELSE CHOOSE id \in blocks :
                \A other \in blocks : PositionBefore(d, other) <= PositionBefore(d, id)

\* Position p is at the end of the content of element id: only ends of
\* elements lie between p and the end of the element.
TouchesEndOf(d, p, id) ==
    \A i \in (p + 1)..PositionAfter(d, id) : d[i].k = "close"

\* C23: with a single whole element selected the function returns the
\* position right after that element, whatever blocks contain it; with no
\* element selected and no block around the selection it returns the focus;
\* with no element selected and a block around the selection it returns a
\* position of that block: inside it, before it or after it.
C23_SelectedElementOutranksBlocks ==
    insertion.called =>
        LET s == insertion.sel
            element == SelectedElement(doc, s)
            block == InnermostBlock(doc, FirstPosition(s))
        IN  /\ element # NoId => insertion.position = PositionAfter(doc, element)
            /\ (element = NoId /\ block = NoId) => insertion.position = s.focus
            /\ (element = NoId /\ block # NoId) =>
                  insertion.position \in {PositionBefore(doc, block),
                                          PositionBefore(doc, block) + 1,
                                          PositionAfter(doc, block)}

\* A span inside a paragraph was selected and the position returned is the
\* one after the span, inside the paragraph.
C23_Witness ==
    /\ insertion.called
    /\ SelectedElement(doc, insertion.sel) # NoId
    /\ NameOf(doc, SelectedElement(doc, insertion.sel)) = "span"
    /\ InnermostBlock(doc, FirstPosition(insertion.sel)) # NoId
    /\ insertion.position = PositionAfter(doc, SelectedElement(doc, insertion.sel))
    /\ insertion.position
          < PositionAfter(doc, InnermostBlock(doc, FirstPosition(insertion.sel)))

\* C24: with no element selected and the caret inside a block that is not
\* empty, the function returns the position right after the block when only
\* ends of elements lie between the caret and the end of the block, however
\* many inline wrappers end there, and the position right before the block
\* in every other case.
C24_AfterBlockIffAtItsEnd ==
    LET s == insertion.sel
        block == InnermostBlock(doc, s.focus)
    IN  ( /\ insertion.called
          /\ IsCollapsed(s)
          /\ SelectedElement(doc, s) = NoId
          /\ block # NoId
          /\ PositionAfter(doc, block) > PositionBefore(doc, block) + 2 )
        => insertion.position =
              (IF TouchesEndOf(doc, s.focus, block)
               THEN PositionAfter(doc, block)
               ELSE PositionBefore(doc, block))

\* The caret was at the end of the inner one of two nested spans that end a
\* paragraph, and the position returned is the one after the paragraph.
C24_Witness ==
    /\ insertion.called
    /\ IsCollapsed(insertion.sel)
    /\ ParentName(doc, insertion.sel.focus) = "span"
    /\ NameOf(doc, ElementParentId(doc, ParentId(doc, insertion.sel.focus))) = "span"
    /\ NodeBefore(doc, insertion.sel.focus) = Char
    /\ insertion.position = insertion.sel.focus + 3
    /\ insertion.position = PositionAfter(doc, InnermostBlock(doc, insertion.sel.focus))

---------------------------------------------------------------------------
\* Properties of the toolbar repository's showing and hiding.

\* The views of a stack, bottom first.
Views(s) == [i \in 1..Len(s) |-> s[i].view]

\* The stack the last pass had when its loop was over, before it showed the
\* chosen toolbar.
StackAfterLoop == Loop(toolbarDefinitions, 1, LoopStart(op.preStack), op.related, isFocused).stack

\* C25 as stated: an update pass run with focus in which a resolver returned
\* an element chooses a toolbar to show, one whose element has the most
\* ancestors among the elements returned, also when that element has no
\* ancestors.
C25_EligiblePassChoosesToolbar ==
    (PassDone /\ \E a \in RegisteredIds : Eligible(a)) =>
        /\ Chosen \in RegisteredIds
        /\ Eligible(Chosen)
        /\ \A a \in RegisteredIds :
              Eligible(a) =>
                  AncestorsLength(op.related[a]) <= AncestorsLength(op.related[Chosen])

\* C26: the pass shows the chosen toolbar in one of three ways.  When its
\* view is the visible one, the stack keeps its views and the visible one
\* gets the position of the related element; when its view is not in the
\* stack, the view is put on top with the record's class name; when its
\* view is in the stack under another one, the stack is left as it is.  No
\* view is in the stack twice.
C26_ShowHasThreeOutcomes ==
    /\ \A i, j \in 1..Len(stack) : stack[i].view = stack[j].view => i = j
    /\ (PassDone /\ Chosen # 0) =>
          LET definition == DefinitionOf(toolbarDefinitions, Chosen)
              before == StackAfterLoop
              places == {i \in 1..Len(before) : before[i].view = definition.view}
          IN  /\ places = {Len(before)} =>
                    /\ Len(stack) = Len(before)
                    /\ \A i \in 1..(Len(before) - 1) : stack[i] = before[i]
                    /\ stack[Len(stack)] =
                          [before[Len(before)] EXCEPT !.target = op.related[Chosen]]
              /\ places = {} =>
                    /\ Len(stack) = Len(before) + 1
                    /\ \A i \in 1..Len(before) : stack[i] = before[i]
                    /\ stack[Len(stack)] = [view |-> definition.view,
                                            target |-> op.related[Chosen],
                                            balloonClassName |-> definition.balloonClassName]
              /\ (places # {} /\ places # {Len(before)}) => stack = before

\* The chosen toolbar's view was in the stack under another toolbar's view,
\* and the pass left the stack as it was.
C26_Witness ==
    /\ PassDone
    /\ Chosen # 0
    /\ Len(stack) = 2
    /\ stack[1].view = ViewOf(Chosen)
    /\ stack[2].view # ExternalView
    /\ stack = op.preStack

\* C27: an update pass removes a view from the stack only when that view is
\* the visible one at that moment: the views the pass takes out are the top
\* of the stack it started from, each is the view of a registered toolbar
\* that is not eligible, and what is left underneath is as it was; a view of
\* another plugin, and every view under it, stays in the stack.
C27_HideRemovesVisibleOnly ==
    PassDone =>
        LET before == op.preStack
            after == StackAfterLoop
        IN  /\ Len(after) <= Len(before)
            /\ after = SubSeq(before, 1, Len(after))
            /\ \A i \in (Len(after) + 1)..Len(before) :
                  \E a \in RegisteredIds : ~Eligible(a) /\ before[i].view = ViewOf(a)
            /\ Views(SubSeq(stack, 1, Len(after))) = Views(after)
            /\ Len(stack) \in {Len(after), Len(after) + 1}

\* The pass took the visible view of a toolbar out and left the view of the
\* other toolbar, which is not eligible either, under the view of another
\* plugin.
C27_Witness ==
    /\ PassDone
    /\ Len(op.preStack) = 3
    /\ op.preStack[2].view = ExternalView
    /\ Len(stack) = 2
    /\ stack[2].view = ExternalView
    /\ \A a \in RegisteredIds : ~Eligible(a)

---------------------------------------------------------------------------
\* Properties of the consumption of events.

\* The key of the last keydown is no arrow key, not Ctrl+A and not Enter.
OtherKeydown ==
    /\ ev.name = "keydown"
    /\ ev.key.keyCode \notin {ArrowLeft, ArrowUp, ArrowRight, ArrowDown, Enter}
    /\ ~(ev.key.keyCode = LetterA /\ ev.key.ctrlKey /\ ~ev.key.shiftKey)

\* C28: a keydown or delete event is default-prevented exactly when the
\* plugin's handler for it reported handled, and it is stopped exactly then;
\* the keydown of a key that is no arrow key, not the select-all keystroke
\* and not Enter is not handled, not consumed, and changes nothing.
C28_ConsumedIffHandled ==
    /\ ev.name \in {"keydown", "delete"} =>
          /\ ev.defaultPrevented <=> ev.wasHandled
          /\ ev.stopped <=> ev.wasHandled
    /\ OtherKeydown =>
          /\ ~ev.wasHandled
          /\ ~ev.defaultPrevented
          /\ ~ev.stopped
          /\ doc = ev.preDoc
          /\ sel = ev.preSel

\* The Delete key went down while an object was selected, and the event
\* was not consumed.
C28_Witness ==
    /\ OtherKeydown
    /\ ev.key.keyCode = Delete
    /\ SelectedElement(ev.preDoc, ev.preSel) # NoId
    /\ IsObject(NameOf(ev.preDoc, SelectedElement(ev.preDoc, ev.preSel)))
    /\ ~ev.defaultPrevented
    /\ ~ev.stopped

---------------------------------------------------------------------------
\* Properties of the read-only editor.

\* C29 as stated: while the editor is read-only, no event the plugin
\* handles (mousedown, keydown of any key, delete) changes the document: no
\* element is inserted and none is removed.
C29_ReadOnlyKeepsDocument ==
    (isReadOnly /\ ev.name \in {"mousedown", "keydown", "delete"}) =>
        /\ ElementIds(doc) = ElementIds(ev.preDoc)
        /\ doc = ev.preDoc

---------------------------------------------------------------------------
\* Properties of the delete handler's loop.

\* The ancestors of element id in document d, the root excluded.
AncestorsOf(d, id) == {d[i].id : i \in Enclosing(d, OpenIndex(d, id) - 1)}

\* C30: a handled delete has ended with an object selected that is attached
\* to the document; the elements it removed are ancestors of the anchor (its
\* parent included), at most as many as the anchor has, none of them the
\* object, an ancestor of the object or the root; each of them held no text
\* and no element that was not removed as well, so it was empty when its
\* turn came; and nothing else left the document.
C30_CascadeRemovesEmptyOnly ==
    (DeleteHandled /\ ev.wasHandled) =>
        LET objectElement == SelectedElement(doc, sel)
            removed == ElementIds(ev.preDoc) \ ElementIds(doc)
            around == {ev.preDoc[i].id : i \in Enclosing(ev.preDoc, ev.preSel.anchor)}
        IN  /\ objectElement # NoId
            /\ IsAttached(doc, objectElement)
            /\ objectElement \in ObjectIds(ev.preDoc)
            /\ objectElement \notin removed
            /\ AncestorsOf(ev.preDoc, objectElement) \cap removed = {}
            /\ RootId \notin removed
            /\ removed \subseteq around
            /\ Cardinality(removed) <= Cardinality(around)
            /\ \A id \in removed :
                  \A i \in (OpenIndex(ev.preDoc, id) + 1)
                              ..(CloseIndex(ev.preDoc, OpenIndex(ev.preDoc, id)) - 1) :
                      ev.preDoc[i].k # "text" /\ ev.preDoc[i].id \in removed
            /\ doc = WithoutElements(ev.preDoc, removed)

\* A backward delete with the caret in the empty paragraph of a block quote,
\* behind a widget that holds a nested editable: the paragraph and the block
\* quote were removed and the widget, with its content, is selected.
C30_Witness ==
    /\ DeleteHandled
    /\ ev.wasHandled
    /\ ~DeleteIsForward
    /\ Cardinality(ElementIds(ev.preDoc) \ ElementIds(doc)) = 2
    /\ SelectedElement(doc, sel) # NoId
    /\ NameOf(doc, SelectedElement(doc, sel)) = "widget"
    /\ ~IsEmpty(doc, SelectedElement(doc, sel))
    /\ Len(doc) = 7

=============================================================================
